---- MODULE Spec2Model ----
(***************************************************************************)
(* A model of the GLib tutorial programs.                                  *)
(*                                                                         *)
(* SpecRing models lesson 9, io_uring_gsource.c (the revised file): the    *)
(* custom GSource over an io_uring, submit_write_operation, the completion *)
(* callback and main.  The kernel side of the ring and the GLib main loop  *)
(* are library code; they are modelled by what the program observes of     *)
(* them at the calls it makes.                                             *)
(*                                                                         *)
(* SpecLoop models the default main context running priority_example.c     *)
(* (lesson 3) and custom_source.c (lesson 6) from the call of              *)
(* g_main_loop_run on; idle_example.c, simple_loop.c and timeout_example.c *)
(* run on the same engine.                                                 *)
(*                                                                         *)
(* SpecMutex models the first example of mutex_example.c (lesson 4): main  *)
(* creating and joining the threads that run protected_increment_thread.   *)
(*                                                                         *)
(* SpecContexts models multiple_contexts.c (lesson 3): main iterating two  *)
(* contexts of its own by hand.                                            *)
(*                                                                         *)
(* SpecThreads models context_threading.c (lesson 4): main running the     *)
(* default context while two worker threads add idle callbacks to it, then *)
(* the thread that runs a loop on a context of its own.  SpecThreadsLive   *)
(* adds that the thread running a loop keeps being scheduled.              *)
(*                                                                         *)
(* SpecQueue models the producer-consumer example of async_queue.c (lesson *)
(* 4) up to the queue length main prints after the joins, for each way     *)
(* GLib can be built (with or without its checks and its assertions).      *)
(* SpecQueueLive adds that every thread that can run does run.             *)
(*                                                                         *)
(* SpecTask models gtask_basic.c (lesson 6): the four tasks on pool        *)
(* threads, their completion sources on the default context, and main.     *)
(*                                                                         *)
(* SpecRace models the second example of mutex_example.c: the threads that *)
(* run unprotected_increment_thread, and main up to the difference it      *)
(* prints.                                                                 *)
(*                                                                         *)
(* SpecTimeout models async_timeout.c (lesson 7): the two calls of         *)
(* run_with_timeout, slow_task_func in a pool thread, the timeout source   *)
(* and the completion source on the default context, with a clock in ticks *)
(* of 100 ms and threads that may be late.                                 *)
(***************************************************************************)
EXTENDS Integers, Sequences, FiniteSets, TLC

(***************************************************************************)
(* Bounds and program constants                                            *)
(***************************************************************************)

\* How many times submit_write_operation is called: main calls it once; the
\* driver here calls it again after a call that returned FALSE.
MaxSubmits == 3

\* Submission ring entries: io_uring_queue_init_params(8, ...), scaled down so
\* that a full ring is reached within MaxSubmits calls.
QueueEntries == 3

\* The completion ring the kernel sets up holds twice the submission entries.
CqEntries == 2 * QueueEntries

\* completion_state.expected_completions = 2
ExpectedCompletions == 2

\* GPOINTER_TO_INT(op_data) > 1024
FdLimit == 1024

\* The descriptor open() returns in main: 0-2 are the standard streams, 3 the
\* context's wakeup descriptor, 4 the ring descriptor.
FileFd == 5

(***************************************************************************)
(* Pointers: 64-bit values kept as four 16-bit words, most significant     *)
(* first, so that the truncation to a 32-bit gint can be computed.         *)
(***************************************************************************)

Word == 65536

NullPtr == <<0, 0, 0, 0>>

\* GINT_TO_POINTER(i) for a non-negative gint.
GINT_TO_POINTER(i) == <<0, 0, i \div Word, i % Word>>

\* GPOINTER_TO_INT(p): the low 32 bits of p read as a signed 32-bit integer.
GPOINTER_TO_INT(p) ==
    IF p[3] >= Word \div 2
    THEN (p[3] - Word) * Word + p[4]
    ELSE p[3] * Word + p[4]

\* Where the process heap may lie: a base whose low 32 bits are a positive
\* gint (0x55812a3c1000) and one whose bit 31 is set (0x7f1cb4000b70), both
\* ordinary user-space heap addresses.
HeapBases ==
    { <<0, 21889, 10812, 4096>>,
      <<0, 32540, 46080, 2928>> }

\* The address g_strdup returns for the buffer of call k on a heap at base.
HeapAddr(base, k) == <<base[1], base[2], base[3], base[4] + 32 * k>>

Calls == 1 .. MaxSubmits

NoOp == [kind |-> "none", id |-> 0]

WriteOp(k) == [kind |-> "write", id |-> k]

CloseOp(k) == [kind |-> "close", id |-> k]

VARIABLES
    pc,               \* position of the main thread
    calls,            \* calls of submit_write_operation made so far
    lastRet,          \* "none", "TRUE" or "FALSE": what the last call returned
    sq,               \* submission ring: entries the kernel has not consumed
    inflight,         \* operations the kernel consumed and has not completed
    kres,             \* result of each completed operation
    cqes,             \* every completion entry posted; ktail = Len(cqes)
    khead,            \* completion ring consumer cursor
    heap,             \* base address of the process heap
    bufAddr,          \* bufAddr[k]: address of the buffer of call k
    frees,            \* frees[k]: who called g_free on the buffer of call k
    closes,           \* closes[k]: who closed the descriptor of call k
    revents,          \* poll_fd.revents
    ready,            \* what io_uring_source_check returned
    dHead,            \* dispatch: head
    dCount,           \* dispatch: count
    completed_count,  \* CompletionState.completed_count
    is_running,       \* GMainLoop.is_running
    ref_count,        \* reference count of the io_uring source
    attached,         \* the source is attached to the default context
    ring,             \* "uninit", "ok", "failed", "exited"
    finalizeLog,      \* finalize calls: the ring state each found
    handled,          \* indices of the entries the dispatch loop processed
    advances,         \* calls of io_uring_cq_advance
    dispatches,       \* calls of io_uring_source_dispatch
    cbCovered,        \* entries drained by dispatches whose callback has run
    polledReadable,   \* the last poll reported the ring descriptor readable
    nonEmptyAtCheck,  \* the completion ring was non-empty at the last check
    prog,             \* the example program the main loop below runs
    now,              \* monotonic time, in ticks
    srcs,             \* the sources of the default context, in attachment order
    lphase,           \* step of the iteration g_main_loop_run is at
    timeout,          \* poll timeout the prepare step computed, in ticks
    pending,          \* pending dispatches of the iteration
    lrunning,         \* GMainLoop.is_running of that program
    order,            \* names of the sources dispatched, in order
    execution_order,  \* priority_example.c: execution_order
    call_num,         \* custom_source.c: simple_callback's static call_num
    iteration,        \* iterations of the context the run has started
    orderIter,        \* orderIter[k]: the iteration of dispatch order[k]
    perturb,          \* offset of the whole-second marks of seconds timers
    lateTotal,        \* ticks the poll steps have returned late, in all
    mmain,            \* mutex_example.c: position of main
    created,          \* threads main has created
    joined,           \* threads main has joined
    shared_counter,   \* mutex_example.c: shared_counter
    counter_mutex,    \* the thread holding counter_mutex, 0 when unlocked
    tpc,              \* tpc[t]: position of incrementing thread t
    ti,               \* ti[t]: the loop variable i of thread t
    temp,             \* temp[t]: the local temp of thread t
    cpc,              \* multiple_contexts.c: position of main
    cidx,             \* the context main is handling: 1 or 2
    cnow,             \* monotonic time, in ticks
    cowner,           \* cowner[i]: the thread that owns context i
    cowner_count,     \* cowner_count[i]: how many times the owner acquired it
    csource,          \* csource[i]: the timeout source of context i
    ccounter,         \* ccounter[i]: data1.counter and data2.counter
    cactive,          \* cactive[i]: context1_active and context2_active
    acquired,         \* acquired[i]: calls of g_main_context_acquire by main
    released,         \* released[i]: calls of g_main_context_release by main
    iterated,         \* iterated[i]: calls of g_main_context_iteration
    overslept,        \* ticks the g_usleep calls have overslept, in all
    xmain,            \* context_threading.c: position of main
    thread_default,   \* thread_default[t]: thread-default stack of thread t
    main_default,     \* what g_main_context_get_thread_default gave main
    wpc,              \* wpc[w]: position of worker w
    wi,               \* wi[w]: the loop variable i of worker w
    qsrcs,            \* idle sources attached and not yet dispatched
    dphase,           \* step of the iteration the run of main_loop is at
    dtimeout,         \* poll timeout of that iteration: 0, or -1 to block
    dpending,         \* pending dispatches of that iteration
    downer,           \* the thread that owns the default context
    wake,             \* the wakeup of the default context is signalled
    wrevents,         \* the last poll reported the wakeup
    work_counter,     \* context_threading.c: work_counter
    main_running,     \* main_loop is running
    executors,        \* the threads that have executed update_from_worker
    kpc,              \* position of the context-owner thread
    match,            \* thread_default == context, as the thread printed it
    timeout_count,    \* context_owner_thread: timeout_count
    krunning,         \* the loop of the context-owner thread is running
    amain,            \* async_queue.c: position of main
    glib_checks,      \* GLib was built with its g_return_if_fail checks
    glib_assert,      \* GLib was built with its g_assert checks
    aqueue,           \* the items of queue, oldest first; 0 is NULL
    prod_pc,          \* position of the producer thread
    prod_i,           \* producer_thread: i
    cons_pc,          \* cons_pc[c]: position of consumer c
    cons_task,        \* cons_task[c]: task of consumer c, 0 when none
    popped,           \* the tasks g_async_queue_pop returned, in order
    processed,        \* processed[t]: completions printed for task t
    freed,            \* freed[t]: calls of task_free on task t
    criticals,        \* calls g_async_queue_push rejected
    aborted,          \* g_assert has aborted the process
    final_length,     \* the length main prints at line 151, -1 before
    gmain,            \* gtask_basic.c: position of main
    gstarted,         \* calls of run_immediate_task_async made
    gtask,            \* gtask[t]: where task t is
    gsources,         \* tasks whose completion source is attached, in order
    gphase,           \* step of the iteration the run of loop is at
    gdispatch,        \* the sources this iteration still has to dispatch
    grunning,         \* loop is running
    gcallbacks,       \* gcallbacks[t]: calls of the callback of task t
    gquitleft,        \* tasks without their callback when the loop was quit
    umain,            \* mutex_example.c, example 2: position of main
    ucreated,         \* unprotected threads main has created
    ujoined,          \* unprotected threads main has joined
    unprotected_counter,\* mutex_example.c: unprotected_counter
    upc,              \* upc[t]: position of unprotected thread t
    ui,               \* ui[t]: the loop variable i of thread t
    utemp,            \* utemp[t]: temp of thread t
    difference,       \* the lost increments main prints, -1 before
    omain,            \* async_timeout.c: position of main
    orun,             \* the call of run_with_timeout main is in, 0 before
    oclock,           \* the time, in ticks
    odelay,           \* ticks by which threads have been late, in all
    mwake,            \* when the g_usleep of main ends
    cancellable,      \* the object cancellable points to, 0 for NULL
    cancelled,        \* cancelled[c]: object c has been cancelled
    timeout_source_id,\* async_timeout.c: timeout_source_id
    next_source_id,   \* the id the next attached source gets
    osources,         \* the attached sources, in the order of attachment
    ophase,           \* step of the iteration the run of main_loop is at
    opending,         \* ids of the sources this iteration still dispatches
    orunning,         \* main_loop is running
    opc,              \* position of the pool thread in slow_task_func
    elapsed,          \* slow_task_func: elapsed, in ms
    owake,            \* when the g_usleep of slow_task_func ends
    oresult,          \* what slow_task_func returned through the task
    fired,            \* fired[r]: calls of on_timeout for the timer of run r
    removals,         \* the removals of timeout sources, in order
    reported,         \* reported[r]: what on_task_complete printed in run r
    cancel_at,        \* cancel_at[r]: time of g_cancellable_cancel, -1 none
    seen_at,          \* seen_at[r]: time the task saw the cancellation
    work_done        \* work_done[r]: when the work of run r was done

ringVars ==
    <<pc, calls, lastRet, sq, inflight, kres, cqes, khead, heap, bufAddr, frees,
      closes, revents, ready, dHead, dCount, completed_count, is_running,
      ref_count, attached, ring, finalizeLog, handled, advances, dispatches,
      cbCovered, polledReadable, nonEmptyAtCheck>>

loopVars ==
    <<prog, now, srcs, lphase, timeout, pending, lrunning, order,
      execution_order, call_num, iteration, orderIter, perturb,
                   lateTotal>>

mutexVars ==
    <<mmain, created, joined, shared_counter, counter_mutex, tpc, ti, temp>>

contextsVars ==
    <<cpc, cidx, cnow, cowner, cowner_count, csource, ccounter, cactive,
      acquired, released, iterated, overslept>>

threadsVars ==
    <<xmain, thread_default, main_default, wpc, wi, qsrcs, dphase, dtimeout,
      dpending, downer, wake, wrevents, work_counter, main_running, executors,
      kpc, match, timeout_count, krunning>>

queueVars ==
    <<amain, glib_checks, glib_assert, aqueue, prod_pc, prod_i, cons_pc,
      cons_task, popped, processed, freed, criticals, aborted, final_length>>

taskVars ==
    <<gmain, gstarted, gtask, gsources, gphase, gdispatch, grunning,
      gcallbacks, gquitleft>>

raceVars ==
    <<umain, ucreated, ujoined, unprotected_counter, upc, ui, utemp,
      difference>>

timeoutVars ==
    <<omain, orun, oclock, odelay, mwake, cancellable, cancelled,
      timeout_source_id, next_source_id, osources, ophase, opending,
      orunning, opc, elapsed, owake, oresult, fired, removals, reported,
      cancel_at, seen_at, work_done>>

vars ==
    <<ringVars, loopVars, mutexVars, contextsVars, threadsVars, queueVars,
      taskVars, raceVars, timeoutVars>>

\* What the steps of io_uring_gsource.c leave alone, and what the steps of the
\* timer and idle examples leave alone.
notRing ==
    <<loopVars, mutexVars, contextsVars, threadsVars, queueVars, taskVars,
      raceVars, timeoutVars>>

notLoop ==
    <<ringVars, mutexVars, contextsVars, threadsVars, queueVars, taskVars,
      raceVars, timeoutVars>>

\* What the steps of mutex_example.c leave alone.
notMutex ==
    <<ringVars, loopVars, contextsVars, threadsVars, queueVars, taskVars,
      raceVars, timeoutVars>>

\* What the steps of multiple_contexts.c leave alone.
notContexts ==
    <<ringVars, loopVars, mutexVars, threadsVars, queueVars, taskVars,
      raceVars, timeoutVars>>

\* What the steps of context_threading.c leave alone.
notThreads ==
    <<ringVars, loopVars, mutexVars, contextsVars, queueVars, taskVars,
      raceVars, timeoutVars>>

\* What the steps of async_queue.c leave alone.
notQueue ==
    <<ringVars, loopVars, mutexVars, contextsVars, threadsVars, taskVars,
      raceVars, timeoutVars>>

\* What the steps of gtask_basic.c leave alone.
notTask ==
    <<ringVars, loopVars, mutexVars, contextsVars, threadsVars, queueVars,
      raceVars, timeoutVars>>

\* What the steps of the unprotected example of mutex_example.c leave alone.
notRace ==
    <<ringVars, loopVars, mutexVars, contextsVars, threadsVars, queueVars,
      taskVars, timeoutVars>>

\* What the steps of async_timeout.c leave alone.
notTimeout ==
    <<ringVars, loopVars, mutexVars, contextsVars, threadsVars, queueVars,
      taskVars, raceVars>>

(***************************************************************************)
(* io_uring_gsource.c                                                      *)
(***************************************************************************)

RingStart(base) ==
    /\ pc = "new"
    /\ calls = 0
    /\ lastRet = "none"
    /\ sq = <<>>
    /\ inflight = {}
    /\ kres = [o \in {} |-> "ok"]
    /\ cqes = <<>>
    /\ khead = 0
    /\ heap = base
    /\ bufAddr = [k \in Calls |-> NullPtr]
    /\ frees = [k \in Calls |-> <<>>]
    /\ closes = [k \in Calls |-> <<>>]
    /\ revents = {}
    /\ ready = FALSE
    /\ dHead = 0
    /\ dCount = 0
    /\ completed_count = 0
    /\ is_running = FALSE
    /\ ref_count = 0
    /\ attached = FALSE
    /\ ring = "uninit"
    /\ finalizeLog = <<>>
    /\ handled = <<>>
    /\ advances = 0
    /\ dispatches = 0
    /\ cbCovered = 0
    /\ polledReadable = FALSE
    /\ nonEmptyAtCheck = FALSE

\* No timer or idle example runs.
LoopIdle ==
    /\ prog = "none"
    /\ now = 0
    /\ srcs = <<>>
    /\ lphase = "none"
    /\ timeout = 0
    /\ pending = <<>>
    /\ lrunning = FALSE
    /\ order = <<>>
    /\ execution_order = 0
    /\ call_num = 0
    /\ iteration = 0
    /\ orderIter = <<>>
    /\ perturb = 0
    /\ lateTotal = 0

\* mutex_example.c does not run.
MutexIdle ==
    /\ mmain = "none"
    /\ created = 0
    /\ joined = 0
    /\ shared_counter = 0
    /\ counter_mutex = 0
    /\ tpc = <<>>
    /\ ti = <<>>
    /\ temp = <<>>

\* multiple_contexts.c does not run.
ContextsIdle ==
    /\ cpc = "none"
    /\ cidx = 0
    /\ cnow = 0
    /\ cowner = <<>>
    /\ cowner_count = <<>>
    /\ csource = <<>>
    /\ ccounter = <<>>
    /\ cactive = <<>>
    /\ acquired = <<>>
    /\ released = <<>>
    /\ iterated = <<>>
    /\ overslept = 0

\* context_threading.c does not run.
ThreadsIdle ==
    /\ xmain = "none"
    /\ thread_default = <<>>
    /\ main_default = "unset"
    /\ wpc = <<>>
    /\ wi = <<>>
    /\ qsrcs = <<>>
    /\ dphase = "none"
    /\ dtimeout = 0
    /\ dpending = 0
    /\ downer = "none"
    /\ wake = FALSE
    /\ wrevents = FALSE
    /\ work_counter = 0
    /\ main_running = FALSE
    /\ executors = {}
    /\ kpc = "none"
    /\ match = "unset"
    /\ timeout_count = 0
    /\ krunning = FALSE

\* async_queue.c does not run.
QueueIdle ==
    /\ amain = "none"
    /\ glib_checks = FALSE
    /\ glib_assert = FALSE
    /\ aqueue = <<>>
    /\ prod_pc = "none"
    /\ prod_i = 0
    /\ cons_pc = <<>>
    /\ cons_task = <<>>
    /\ popped = <<>>
    /\ processed = <<>>
    /\ freed = <<>>
    /\ criticals = 0
    /\ aborted = FALSE
    /\ final_length = -1

\* gtask_basic.c does not run.
TaskIdle ==
    /\ gmain = "none"
    /\ gstarted = 0
    /\ gtask = <<>>
    /\ gsources = <<>>
    /\ gphase = "none"
    /\ gdispatch = <<>>
    /\ grunning = FALSE
    /\ gcallbacks = <<>>
    /\ gquitleft = {}

\* the unprotected example of mutex_example.c does not run.
RaceIdle ==
    /\ umain = "none"
    /\ ucreated = 0
    /\ ujoined = 0
    /\ unprotected_counter = 0
    /\ upc = <<>>
    /\ ui = <<>>
    /\ utemp = <<>>
    /\ difference = -1

\* async_timeout.c does not run.
TimeoutIdle ==
    /\ omain = "none"
    /\ orun = 0
    /\ oclock = 0
    /\ odelay = 0
    /\ mwake = 0
    /\ cancellable = 0
    /\ cancelled = <<>>
    /\ timeout_source_id = 0
    /\ next_source_id = 1
    /\ osources = <<>>
    /\ ophase = "none"
    /\ opending = <<>>
    /\ orunning = FALSE
    /\ opc = "none"
    /\ elapsed = 0
    /\ owake = 0
    /\ oresult = "none"
    /\ fired = <<>>
    /\ removals = <<>>
    /\ reported = <<>>
    /\ cancel_at = <<>>
    /\ seen_at = <<>>
    /\ work_done = <<>>

\* main of io_uring_gsource.c starts; the allocator places the heap.
RingInit ==
    /\ \E base \in HeapBases : RingStart(base)
    /\ LoopIdle
    /\ MutexIdle
    /\ ContextsIdle
    /\ ThreadsIdle
    /\ QueueIdle
    /\ TaskIdle
    /\ RaceIdle
    /\ TimeoutIdle

\* The entry io_uring_prep_write and io_uring_sqe_set_data(sqe, buffer) fill,
\* with IOSQE_IO_LINK set.
WriteSqe(k, buffer) ==
    [op |-> WriteOp(k), data |-> buffer, link |-> TRUE]

\* The entry io_uring_prep_close and io_uring_sqe_set_data(sqe,
\* GINT_TO_POINTER(fd)) fill.
CloseSqe(k, fd) ==
    [op |-> CloseOp(k), data |-> GINT_TO_POINTER(fd), link |-> FALSE]

\* io_uring_get_sqe: a slot is free while fewer than QueueEntries entries
\* wait for the kernel.
HasFreeSqe(q) == Len(q) < QueueEntries

\* The kernel takes a batch of entries: an entry that follows one with
\* IOSQE_IO_LINK in the same batch starts only after it.
KernelConsume(batch) ==
    { [op   |-> batch[i].op,
       data |-> batch[i].data,
       pred |-> IF i > 1 /\ batch[i - 1].link THEN batch[i - 1].op ELSE NoOp]
      : i \in 1 .. Len(batch) }

\* io_uring_source_finalize: io_uring_queue_exit(&uring_source->ring).
io_uring_source_finalize(ringState) ==
    /\ finalizeLog' = Append(finalizeLog, ringState)
    /\ ring' = "exited"

\* g_source_unref: the last reference runs the finalize hook.
g_source_unref(ringState) ==
    /\ ref_count' = ref_count - 1
    /\ IF ref_count - 1 = 0
       THEN io_uring_source_finalize(ringState)
       ELSE UNCHANGED <<finalizeLog, ring>>

\* main up to g_source_attach: g_main_loop_new, io_uring_source_new,
\* g_source_set_callback, g_source_attach.  When
\* io_uring_queue_init_params fails, io_uring_source_new drops the only
\* reference and main returns 1.
MainCreateSource ==
    /\ pc = "new"
    /\ \E ok \in BOOLEAN :
         IF ok
         THEN /\ ring' = "ok"
              /\ ref_count' = 2
              /\ attached' = TRUE
              /\ pc' = "submit"
              /\ UNCHANGED finalizeLog
         ELSE /\ ref_count' = 0
              /\ io_uring_source_finalize("failed")
              /\ pc' = "exit1"
              /\ UNCHANGED attached
    /\ UNCHANGED notRing
    /\ UNCHANGED <<calls, lastRet, sq, inflight, kres, cqes, khead, heap, bufAddr,
                   frees, closes, revents, ready, dHead, dCount,
                   completed_count, is_running, handled, advances, dispatches,
                   cbCovered, polledReadable, nonEmptyAtCheck>>

\* submit_write_operation, one call.  consumed is what io_uring_submit
\* reports: 0 stands for a negative return (the kernel took nothing and the
\* entries stay in the submission ring), n > 0 for n entries taken.
SubmitOutcome(k, addr, consumed) ==
    IF ~HasFreeSqe(sq)
    THEN \* no slot for the write: close(fd); g_free(buffer); return FALSE
         /\ consumed = 0
         /\ closes' = [closes EXCEPT ![k] = <<"submit">>]
         /\ frees' = [frees EXCEPT ![k] = <<"submit">>]
         /\ lastRet' = "FALSE"
         /\ UNCHANGED <<sq, inflight>>
    ELSE LET sq1 == Append(sq, WriteSqe(k, addr))
             gotClose == HasFreeSqe(sq1)
             sq2 == IF gotClose THEN Append(sq1, CloseSqe(k, FileFd)) ELSE sq1
             closed1 == IF gotClose
                        THEN closes
                        ELSE [closes EXCEPT ![k] = <<"submit">>]
         IN  /\ consumed <= Len(sq2)
             /\ IF consumed = 0
                THEN \* submitted < 0: close(fd); g_free(buffer); return FALSE
                     /\ sq' = sq2
                     /\ closes' = [closed1 EXCEPT ![k] = Append(@, "submit")]
                     /\ frees' = [frees EXCEPT ![k] = <<"submit">>]
                     /\ lastRet' = "FALSE"
                     /\ UNCHANGED inflight
                ELSE /\ sq' = SubSeq(sq2, consumed + 1, Len(sq2))
                     /\ inflight' = inflight \cup
                                    KernelConsume(SubSeq(sq2, 1, consumed))
                     /\ closes' = closed1
                     /\ lastRet' = "TRUE"
                     /\ UNCHANGED frees

submit_write_operation ==
    /\ pc = "submit"
    /\ calls < MaxSubmits
    /\ calls' = calls + 1
    /\ lastRet # "TRUE"
    /\ \E consumed \in 0 .. QueueEntries :
          /\ bufAddr' = [bufAddr EXCEPT ![calls + 1] = HeapAddr(heap, calls + 1)]
          /\ SubmitOutcome(calls + 1, HeapAddr(heap, calls + 1), consumed)
    /\ UNCHANGED notRing
    /\ UNCHANGED <<heap, pc, kres, cqes, khead, revents, ready, dHead, dCount,
                   completed_count, is_running, ref_count, attached, ring,
                   finalizeLog, handled, advances, dispatches, cbCovered,
                   polledReadable, nonEmptyAtCheck>>

\* open() fails in submit_write_operation: return FALSE before anything is
\* allocated or queued.
submit_write_operation_open_fails ==
    /\ pc = "submit"
    /\ calls < MaxSubmits
    /\ lastRet # "TRUE"
    /\ calls' = calls + 1
    /\ lastRet' = "FALSE"
    /\ UNCHANGED notRing
    /\ UNCHANGED <<pc, sq, inflight, kres, cqes, khead, heap, bufAddr, frees,
                   closes, revents, ready, dHead, dCount, completed_count,
                   is_running, ref_count, attached, ring, finalizeLog,
                   handled, advances, dispatches, cbCovered, polledReadable,
                   nonEmptyAtCheck>>

\* The descriptor of call k has been closed.
FdClosed(k) == closes[k] # <<>>

\* The result the kernel gives operation o: a successor of a failed link is
\* cancelled, a close of a closed descriptor fails, any other close
\* succeeds, a write succeeds or fails.
KernelResults(o) ==
    IF o.pred # NoOp /\ kres[o.pred] = "err" THEN {"err"}
    ELSE IF o.op.kind = "close"
         THEN (IF FdClosed(o.op.id) THEN {"err"} ELSE {"ok"})
         ELSE {"ok", "err"}

\* The kernel completes an operation and posts its completion entry.
KernelComplete ==
    /\ \E o \in inflight :
         /\ o.pred = NoOp \/ o.pred \in DOMAIN kres
         /\ Len(cqes) - khead < CqEntries
         /\ \E r \in KernelResults(o) :
              /\ inflight' = inflight \ {o}
              /\ kres' = kres @@ (o.op :> r)
              /\ cqes' = Append(cqes, [data |-> o.data, res |-> r, op |-> o.op])
              /\ closes' = IF o.op.kind = "close" /\ r = "ok"
                           THEN [closes EXCEPT ![o.op.id] = Append(@, "kernel")]
                           ELSE closes
    /\ UNCHANGED notRing
    /\ UNCHANGED <<pc, calls, lastRet, sq, khead, heap, bufAddr, frees, revents,
                   ready, dHead, dCount, completed_count, is_running,
                   ref_count, attached, ring, finalizeLog, handled, advances,
                   dispatches, cbCovered, polledReadable, nonEmptyAtCheck>>

\* main: submit_write_operation returned FALSE: g_source_unref(source),
\* g_main_loop_unref(main_loop), return 1.
MainSubmitFailed ==
    /\ pc = "submit"
    /\ lastRet = "FALSE"
    /\ g_source_unref(ring)
    /\ pc' = "exit1"
    /\ UNCHANGED notRing
    /\ UNCHANGED <<calls, lastRet, sq, inflight, kres, cqes, khead, heap, bufAddr,
                   frees, closes, revents, ready, dHead, dCount,
                   completed_count, is_running, attached, handled, advances,
                   dispatches, cbCovered, polledReadable, nonEmptyAtCheck>>

\* main: submit_write_operation returned TRUE: g_main_loop_run(main_loop).
MainLoopRun ==
    /\ pc = "submit"
    /\ lastRet = "TRUE"
    /\ is_running' = TRUE
    /\ pc' = "loop"
    /\ UNCHANGED notRing
    /\ UNCHANGED <<calls, lastRet, sq, inflight, kres, cqes, khead, heap, bufAddr,
                   frees, closes, revents, ready, dHead, dCount,
                   completed_count, ref_count, attached, ring, finalizeLog,
                   handled, advances, dispatches, cbCovered, polledReadable,
                   nonEmptyAtCheck>>

\* io_uring_source_prepare: *timeout = -1; return FALSE.
io_uring_source_prepare == FALSE

\* g_main_loop_run: one more iteration while is_running; the iteration
\* starts with the prepare hook, which never reports the source ready.
LoopIterate ==
    /\ pc = "loop"
    /\ pc' = IF ~is_running THEN "cleanup"
             ELSE IF io_uring_source_prepare THEN "checked" ELSE "poll"
    /\ UNCHANGED notRing
    /\ UNCHANGED <<calls, lastRet, sq, inflight, kres, cqes, khead, heap, bufAddr,
                   frees, closes, revents, ready, dHead, dCount,
                   completed_count, is_running, ref_count, attached, ring,
                   finalizeLog, handled, advances, dispatches, cbCovered,
                   polledReadable, nonEmptyAtCheck>>

\* The poll wait on poll_fd (events = G_IO_IN, no timeout) returns when the
\* ring descriptor is readable, which it is while the completion ring holds
\* an entry the consumer cursor has not passed.
Poll ==
    /\ pc = "poll"
    /\ khead < Len(cqes)
    /\ revents' = {"G_IO_IN"}
    /\ polledReadable' = TRUE
    /\ pc' = "check"
    /\ UNCHANGED notRing
    /\ UNCHANGED <<calls, lastRet, sq, inflight, kres, cqes, khead, heap, bufAddr,
                   frees, closes, ready, dHead, dCount, completed_count,
                   is_running, ref_count, attached, ring, finalizeLog,
                   handled, advances, dispatches, cbCovered, nonEmptyAtCheck>>

\* The poll wait is interrupted (EINTR): the iteration goes on with revents
\* as the query step cleared them.
PollInterrupted ==
    /\ pc = "poll"
    /\ revents' = {}
    /\ polledReadable' = FALSE
    /\ pc' = "check"
    /\ UNCHANGED notRing
    /\ UNCHANGED <<calls, lastRet, sq, inflight, kres, cqes, khead, heap, bufAddr,
                   frees, closes, ready, dHead, dCount, completed_count,
                   is_running, ref_count, attached, ring, finalizeLog,
                   handled, advances, dispatches, cbCovered, nonEmptyAtCheck>>

\* A check hook that tests the wrong event flag.
check_wrong_flag(rev) == "G_IO_OUT" \in rev

\* io_uring_source_check: (poll_fd.revents & G_IO_IN) != 0.
io_uring_source_check(rev) == "G_IO_IN" \in rev

\* The check phase of the iteration calls the check hook.
Check ==
    /\ pc = "check"
    /\ ready' = io_uring_source_check(revents)
    /\ nonEmptyAtCheck' = (khead < Len(cqes))
    /\ pc' = "checked"
    /\ UNCHANGED notRing
    /\ UNCHANGED <<calls, lastRet, sq, inflight, kres, cqes, khead, heap, bufAddr,
                   frees, closes, revents, dHead, dCount, completed_count,
                   is_running, ref_count, attached, ring, finalizeLog,
                   handled, advances, dispatches, cbCovered, polledReadable>>

\* The dispatch phase: a ready source has its dispatch hook called, which
\* starts with head = *khead and count = 0.
DispatchBegin ==
    /\ pc = "checked"
    /\ IF ready
       THEN /\ dHead' = khead
            /\ dCount' = 0
            /\ dispatches' = dispatches + 1
            /\ pc' = "disp_loop"
       ELSE /\ pc' = "loop"
            /\ UNCHANGED <<dHead, dCount, dispatches>>
    /\ UNCHANGED notRing
    /\ UNCHANGED <<calls, lastRet, sq, inflight, kres, cqes, khead, heap, bufAddr,
                   frees, closes, revents, ready, completed_count,
                   is_running, ref_count, attached, ring, finalizeLog,
                   handled, advances, cbCovered, polledReadable,
                   nonEmptyAtCheck>>

\* op_data && GPOINTER_TO_INT(op_data) > 1024
ShouldFree(op_data) ==
    op_data # NullPtr /\ GPOINTER_TO_INT(op_data) > FdLimit

\* g_free on the buffer of call k, called by who.
g_free(k, who) == [frees EXCEPT ![k] = Append(@, who)]

\* The call whose buffer lies at address p.
BufferAt(p) == CHOOSE k \in Calls : bufAddr[k] = p

\* io_uring_source_dispatch, one turn of io_uring_for_each_cqe: the entry at
\* head, while head differs from the tail the kernel published.
DispatchCqe ==
    /\ pc = "disp_loop"
    /\ dHead < Len(cqes)
    /\ LET op_data == cqes[dHead + 1].data
       IN  frees' = IF ShouldFree(op_data)
                    THEN g_free(BufferAt(op_data), "dispatch")
                    ELSE frees
    /\ dCount' = dCount + 1
    /\ dHead' = dHead + 1
    /\ handled' = Append(handled, dHead + 1)
    /\ UNCHANGED notRing
    /\ UNCHANGED <<pc, calls, lastRet, sq, inflight, kres, cqes, khead,
                   heap, bufAddr, closes, revents, ready, completed_count,
                   is_running, ref_count, attached, ring, finalizeLog,
                   advances, dispatches, cbCovered, polledReadable,
                   nonEmptyAtCheck>>

\* A dispatch that marks one entry seen however many it processed.
cq_advance_one(head, count) == head + 1

\* io_uring_cq_advance(ring, count): the consumer cursor moves by count.
io_uring_cq_advance(head, count) == head + count

\* A dispatch that marks the visible entries seen before processing them.
DispatchAdvanceBeforeLoop ==
    /\ pc = "disp_loop"
    /\ dCount = 0
    /\ khead' = Len(cqes)
    /\ dCount' = Len(cqes) - khead
    /\ advances' = advances + 1
    /\ pc' = "disp_callback"
    /\ UNCHANGED notRing
    /\ UNCHANGED <<calls, lastRet, sq, inflight, kres, cqes, heap, bufAddr,
                   frees, closes, revents, ready, dHead, completed_count,
                   is_running, ref_count, attached, ring, finalizeLog,
                   handled, dispatches, cbCovered, polledReadable,
                   nonEmptyAtCheck>>

\* io_uring_source_dispatch after the loop: io_uring_cq_advance.
DispatchAdvance ==
    /\ pc = "disp_loop"
    /\ dHead = Len(cqes)
    /\ khead' = io_uring_cq_advance(khead, dCount)
    /\ advances' = advances + 1
    /\ pc' = "disp_callback"
    /\ UNCHANGED notRing
    /\ UNCHANGED <<heap, calls, lastRet, sq, inflight, kres, cqes, bufAddr, frees,
                   closes, revents, ready, dHead, dCount, completed_count,
                   is_running, ref_count, attached, ring, finalizeLog,
                   handled, dispatches, cbCovered, polledReadable,
                   nonEmptyAtCheck>>

\* on_operation_complete: TRUE when it quits the loop and returns
\* G_SOURCE_REMOVE.
AllCompleted(count) == count >= ExpectedCompletions

\* io_uring_source_dispatch: return callback(user_data), with
\* on_operation_complete as the callback.  G_SOURCE_REMOVE detaches the
\* source and drops the context's reference.
DispatchCallback ==
    /\ pc = "disp_callback"
    /\ completed_count' = completed_count + 1
    /\ IF AllCompleted(completed_count + 1)
       THEN /\ is_running' = FALSE
            /\ attached' = FALSE
            /\ g_source_unref(ring)
       ELSE UNCHANGED <<is_running, attached, ref_count, finalizeLog, ring>>
    /\ cbCovered' = khead
    /\ pc' = "loop"
    /\ UNCHANGED notRing
    /\ UNCHANGED <<calls, lastRet, sq, inflight, kres, cqes, khead, heap, bufAddr,
                   frees, closes, revents, ready, dHead, dCount, handled,
                   advances, dispatches, polledReadable, nonEmptyAtCheck>>

\* main after g_main_loop_run: g_source_unref(source),
\* g_main_loop_unref(main_loop), return 0.
MainCleanup ==
    /\ pc = "cleanup"
    /\ g_source_unref(ring)
    /\ pc' = "done"
    /\ UNCHANGED notRing
    /\ UNCHANGED <<calls, lastRet, sq, inflight, kres, cqes, khead, heap, bufAddr,
                   frees, closes, revents, ready, dHead, dCount,
                   completed_count, is_running, attached, handled, advances,
                   dispatches, cbCovered, polledReadable, nonEmptyAtCheck>>

RingNext ==
    \/ MainCreateSource
    \/ submit_write_operation
    \/ submit_write_operation_open_fails
    \/ KernelComplete
    \/ MainSubmitFailed
    \/ MainLoopRun
    \/ LoopIterate
    \/ Poll
    \/ PollInterrupted
    \/ Check
    \/ DispatchBegin
    \/ DispatchCqe
    \/ DispatchAdvance
    \/ DispatchCallback
    \/ MainCleanup

SpecRing == RingInit /\ [][RingNext]_vars

\* The steps the program takes when it can: the main thread's next step, a
\* poll wait returning once the ring descriptor is readable, the kernel
\* completing what it was given.  An interrupted poll wait is not one.
ProgressStep ==
    \/ MainCreateSource
    \/ submit_write_operation
    \/ MainSubmitFailed
    \/ MainLoopRun
    \/ LoopIterate
    \/ Poll
    \/ Check
    \/ DispatchBegin
    \/ DispatchCqe
    \/ DispatchAdvance
    \/ DispatchCallback
    \/ MainCleanup
    \/ KernelComplete

(***************************************************************************)
(* Claims about the io_uring source                                        *)
(***************************************************************************)

\* The operations the kernel was given.
SubmittedOps == {o.op : o \in inflight} \cup DOMAIN kres

\* io_uring_source_dispatch is not running.
OutsideDispatch == pc \notin {"disp_loop", "disp_callback"}

\* Every operation given to the kernel has completed and its completion
\* entry has been drained by a dispatch that has returned.
AllDrained ==
    /\ SubmittedOps # {}
    /\ inflight = {}
    /\ khead = Len(cqes)
    /\ OutsideDispatch

\* C1: once the N submitted operations have completed and all their
\* completion entries have been drained by io_uring_source_dispatch,
\* on_operation_complete has been invoked exactly N times, once per entry,
\* however the entries were spread over the dispatch calls.
C1_HandlerOncePerEntry ==
    AllDrained => completed_count = Cardinality(SubmittedOps)

\* Call k handed its buffer to the ring: its write entry was queued.
WriteQueued(k) == \E i \in 1 .. Len(sq) : sq[i].op = WriteOp(k)

WriteInFlight(k) == \E o \in inflight : o.op = WriteOp(k)

\* The index of the completion entry of operation op (0: none posted).
CqeIndex(op) ==
    IF \E i \in 1 .. Len(cqes) : cqes[i].op = op
    THEN CHOOSE i \in 1 .. Len(cqes) : cqes[i].op = op
    ELSE 0

\* The completion entry of the write of call k has been processed by the
\* dispatch loop.
WriteObserved(k) ==
    /\ CqeIndex(WriteOp(k)) > 0
    /\ CqeIndex(WriteOp(k)) <= Len(handled)

HandedToRing(k) ==
    WriteQueued(k) \/ WriteInFlight(k) \/ CqeIndex(WriteOp(k)) > 0

\* C2: the buffer handed to the ring is never freed while its write is
\* queued or in flight, and it is freed exactly once, by
\* io_uring_source_dispatch, after the write's completion entry has been
\* observed, also when the write failed.
C2_BufferFreedOnceAfterCompletion ==
    \A k \in Calls :
        HandedToRing(k) =>
            /\ frees[k] # <<>> => WriteObserved(k)
            /\ (WriteObserved(k) /\ OutsideDispatch) => frees[k] = <<"dispatch">>
            /\ Len(frees[k]) <= 1

\* C3, in every state: the dispatch loop has processed the completion
\* entries 1, 2, 3, ... in order, none skipped and none twice; the consumer
\* cursor counts exactly the processed entries of the dispatches that have
\* advanced it; the cursor has been advanced once per finished dispatch.
C3_Cursor ==
    /\ \A i \in 1 .. Len(handled) : handled[i] = i
    /\ IF pc = "disp_loop"
       THEN /\ khead + dCount = Len(handled)
            /\ dHead = Len(handled)
            /\ advances + 1 = dispatches
       ELSE /\ khead = Len(handled)
            /\ advances = dispatches

\* C3, in every step that ends the dispatch loop: the cursor moves by the
\* number of entries processed and then stands at the published tail, so
\* every visible entry was processed.
C3_AdvanceStep ==
    (pc = "disp_loop" /\ pc' = "disp_callback") =>
        /\ khead' = khead + dCount
        /\ khead' = Len(cqes)

\* C3: each call of io_uring_source_dispatch handles every visible
\* completion entry in FIFO order and advances the consumer cursor exactly
\* once by exactly the number handled; over any sequence of dispatches no
\* entry is skipped and none is handled twice.
C3_DrainsAllFifoOnce == [](C3_Cursor) /\ [][C3_AdvanceStep]_vars

\* Two dispatches have together drained three entries.
C3_Witness ==
    /\ dispatches = 2
    /\ Len(handled) = 3
    /\ pc = "disp_callback"

\* The successful call had its write and its linked close taken by the
\* kernel.
LinkedPairSubmitted ==
    /\ lastRet = "TRUE"
    /\ CloseOp(calls) \in SubmittedOps

\* C4: after submit_write_operation has submitted the write and its linked
\* close, the program eventually quits its main loop: until main has
\* returned from g_main_loop_run and cleaned up, the program always has a
\* step to take, however the completion entries fall over the dispatches.
C4_EventuallyQuits ==
    LinkedPairSubmitted => (pc = "done" \/ ENABLED ProgressStep)

\* Call k returned FALSE.
CallFailed(k) == k < calls \/ (k = calls /\ lastRet = "FALSE")

\* C5: a failed submit_write_operation leaves no entry in the submission
\* ring that refers to the buffer it freed or the descriptor it closed.
C5_FailedSubmitLeavesNoEntry ==
    \A k \in Calls :
        CallFailed(k) => \A i \in 1 .. Len(sq) : sq[i].op.id # k

\* The buffers whose write the kernel holds or whose completion entry has
\* not been processed.
PendingBuffers ==
    { k \in Calls : WriteInFlight(k)
                    \/ (CqeIndex(WriteOp(k)) > Len(handled)) }

C7_AfterCheck ==
    pc = "checked" =>
        /\ ready <=> polledReadable
        /\ ready => (nonEmptyAtCheck /\ khead < Len(cqes))

\* C7, in every check step: no completion entry is consumed.
C7_CheckStep ==
    (pc = "check" /\ pc' = "checked") => (khead' = khead /\ cqes' = cqes)

MaxLate == 1

\* Milliseconds in one tick of the model's clock.
TickMs == 100

Ticks(ms) == ms \div TickMs

\* The priorities as priority_example.c prints them.
G_PRIORITY_HIGH == 0 - 100

G_PRIORITY_DEFAULT == 0

G_PRIORITY_HIGH_IDLE == 100

G_PRIORITY_DEFAULT_IDLE == 200

G_PRIORITY_LOW == 300

Programs ==
    {"priority_example", "custom_source", "idle_example", "simple_loop",
     "timeout_example"}

\* Ticks in one second.
SecondTicks == Ticks(1000)

\* The expiration GLib sets for a timer (re)started at time t: t + interval,
\* and for a timer added with g_timeout_add_seconds that time moved to a
\* whole-second mark (marks are the times equal to pt modulo one second):
\* back when it is less than a quarter second past a mark, else forward.
g_timeout_set_expiration(kind, interval, t, pt) ==
    LET e == t + interval
        remainder == (e - pt) % SecondTicks
    IN  IF kind # "seconds" THEN e
        ELSE IF remainder * 4 >= SecondTicks
             THEN e + SecondTicks - remainder
             ELSE e - remainder

\* A source as created at time 0 and attached: expire is the timer's
\* expiration, rdy the G_SOURCE_READY flag, counter and trigger the fields of
\* CounterSource (trigger also holds SimpleSource.max_calls), fin the number
\* of calls of the finalize hook.
Source(name, kind, priority, interval, trigger) ==
    [name |-> name, kind |-> kind, priority |-> priority,
     interval |-> interval, expire |-> interval, attached |-> TRUE,
     rdy |-> FALSE, counter |-> 0, trigger |-> trigger, call_count |-> 0,
     fin |-> 0]

g_timeout_source_new(name, ms, priority) ==
    Source(name, "timeout", priority, Ticks(ms), 0)

g_idle_add_full(name, priority) == Source(name, "idle", priority, 0, 0)

\* g_timeout_add(ms, callback, data): default priority.
g_timeout_add(name, ms) == g_timeout_source_new(name, ms, G_PRIORITY_DEFAULT)

\* g_timeout_add_seconds(seconds, callback, data), the whole-second marks
\* being at pt.
g_timeout_add_seconds(name, seconds, pt) ==
    [Source(name, "seconds", G_PRIORITY_DEFAULT, seconds * SecondTicks, 0)
        EXCEPT !.expire =
            g_timeout_set_expiration("seconds", seconds * SecondTicks, 0, pt)]

\* g_idle_add(callback, data): G_PRIORITY_DEFAULT_IDLE.
g_idle_add(name) == g_idle_add_full(name, G_PRIORITY_DEFAULT_IDLE)

counter_source_new(name, trigger_value) ==
    Source(name, "counter", G_PRIORITY_DEFAULT, 0, trigger_value)

simple_source_new(name, max_calls, priority) ==
    Source(name, "simple", priority, 0, max_calls)

\* priority_example.c with the g_source_set_priority calls left out: the
\* three timeouts keep the default priority.
priority_example_priorities_unset ==
    << g_timeout_source_new("low_source", 100, G_PRIORITY_DEFAULT),
       g_timeout_source_new("default_source", 100, G_PRIORITY_DEFAULT),
       g_timeout_source_new("high_source", 100, G_PRIORITY_DEFAULT),
       g_idle_add_full("default_idle", G_PRIORITY_DEFAULT_IDLE),
       g_idle_add_full("high_idle", G_PRIORITY_HIGH_IDLE),
       g_timeout_source_new("stop_loop", 500, G_PRIORITY_DEFAULT) >>

\* priority_example.c, main: the sources in the order it attaches them.
priority_example_sources ==
    << g_timeout_source_new("low_source", 100, G_PRIORITY_LOW),
       g_timeout_source_new("default_source", 100, G_PRIORITY_DEFAULT),
       g_timeout_source_new("high_source", 100, G_PRIORITY_HIGH),
       g_idle_add_full("default_idle", G_PRIORITY_DEFAULT_IDLE),
       g_idle_add_full("high_idle", G_PRIORITY_HIGH_IDLE),
       g_timeout_source_new("stop_loop", 500, G_PRIORITY_DEFAULT) >>

\* custom_source.c, main: the sources in the order it attaches them.
custom_source_sources ==
    << counter_source_new("counter1", 5),
       counter_source_new("counter2", 10),
       simple_source_new("simple", 5, G_PRIORITY_LOW),
       g_timeout_source_new("quit_timer", 2000, G_PRIORITY_DEFAULT) >>

\* idle_example with oneshot_idle added before idle_function.
idle_example_oneshot_first ==
    << g_idle_add("oneshot_idle"),
       g_idle_add_full("high_priority_idle", G_PRIORITY_HIGH_IDLE),
       g_idle_add("idle_function"),
       g_timeout_add("process_work", 200) >>

\* idle_example (part_007), main: the sources in the order it adds them.
idle_example_sources ==
    << g_idle_add("idle_function"),
       g_idle_add_full("high_priority_idle", G_PRIORITY_HIGH_IDLE),
       g_idle_add("oneshot_idle"),
       g_timeout_add("process_work", 200) >>

\* simple_loop (part_007), main.
simple_loop_sources == << g_timeout_add("timeout_callback", 1000) >>

\* timeout_example with the seconds timer added for 2 seconds.
timeout_example_two_seconds(pt) ==
    << g_timeout_add("oneshot_timeout", 2000),
       g_timeout_add("repeating_timeout", 1500),
       g_timeout_add("fast_timeout", 500),
       g_timeout_add_seconds("seconds_timeout", 2, pt) >>

\* timeout_example.c, main: the sources in the order it adds them.
timeout_example_sources(pt) ==
    << g_timeout_add("oneshot_timeout", 2000),
       g_timeout_add("repeating_timeout", 1500),
       g_timeout_add("fast_timeout", 500),
       g_timeout_add_seconds("seconds_timeout", 1, pt) >>

AttachedSources(p, pt) ==
    CASE p = "priority_example" -> priority_example_sources
      [] p = "custom_source" -> custom_source_sources
      [] p = "idle_example" -> idle_example_sources
      [] p = "simple_loop" -> simple_loop_sources
      [] p = "timeout_example" -> timeout_example_sources(pt)

\* The state when main has created the loop (g_main_loop_new(NULL, FALSE):
\* not running) and added its sources, before it calls g_main_loop_run.
\* Where the whole-second marks lie relative to the start of the program is
\* not in the program's hands.
LoopStart ==
    /\ prog \in Programs
    /\ now = 0
    /\ perturb \in IF prog = "timeout_example"
                   THEN 0 .. SecondTicks - 1 ELSE {0}
    /\ srcs = AttachedSources(prog, perturb)
    /\ lphase = "setup"
    /\ timeout = 0
    /\ pending = <<>>
    /\ lrunning = FALSE
    /\ order = <<>>
    /\ execution_order = 0
    /\ call_num = 0
    /\ iteration = 0
    /\ orderIter = <<>>
    /\ lateTotal = 0

LoopInit ==
    /\ LoopStart
    /\ RingStart(NullPtr)
    /\ MutexIdle
    /\ ContextsIdle
    /\ ThreadsIdle
    /\ QueueIdle
    /\ TaskIdle
    /\ RaceIdle
    /\ TimeoutIdle

\* main calls g_main_loop_run, which sets is_running and starts iterating.
main_g_main_loop_run ==
    /\ lphase = "setup"
    /\ lrunning' = TRUE
    /\ lphase' = "prepare"
    /\ UNCHANGED <<prog, now, srcs, timeout, pending, order, execution_order,
                   call_num, iteration, orderIter, perturb,
                   lateTotal>>
    /\ UNCHANGED notLoop

\* counter_prepare: counter >= trigger_value (and *timeout = -1).
counter_prepare(s) == s.counter >= s.trigger

\* simple_prepare: always ready (and *timeout = 0).
simple_prepare(s) == TRUE

\* Timers added in milliseconds and in seconds.
TimerKinds == {"timeout", "seconds"}

\* The prepare hook of a source at time t; GLib's own for timers (expired)
\* and idles (always).
prepare_hook(s, t) ==
    CASE s.kind \in TimerKinds -> t >= s.expire
      [] s.kind = "idle" -> TRUE
      [] s.kind = "counter" -> counter_prepare(s)
      [] s.kind = "simple" -> simple_prepare(s)

\* A check hook that reports ready one call late.
counter_check_late(s) == s.counter + 1 > s.trigger

\* counter_check: counter++; return counter >= trigger_value.
counter_check(s) == s.counter + 1 >= s.trigger

\* simple_check: always ready.
simple_check(s) == TRUE

check_hook(s, t) ==
    CASE s.kind \in TimerKinds -> t >= s.expire
      [] s.kind = "idle" -> TRUE
      [] s.kind = "counter" -> counter_check(s)
      [] s.kind = "simple" -> simple_check(s)

Attached == {i \in DOMAIN srcs : srcs[i].attached}

MinPriority(S) ==
    CHOOSE p \in {srcs[i].priority : i \in S} :
        \A i \in S : p <= srcs[i].priority

\* A pass that visits every attached source, whatever its priority.
VisitedAll(R) == Attached

\* The sources a pass over the ordered source list visits when the sources
\* of R are the ones found ready: the pass stops at the first source of a
\* larger priority value than a ready one already found.
Visited(R) ==
    IF R = {} THEN Attached
    ELSE {i \in Attached : srcs[i].priority <= MinPriority(R)}

RECURSIVE Ascending(_)
Ascending(S) ==
    IF S = {} THEN <<>>
    ELSE LET m == CHOOSE i \in S : \A j \in S : i <= j
         IN  <<m>> \o Ascending(S \ {m})

\* g_main_context_prepare: the prepare hook of each source visited that is
\* not flagged ready; the poll timeout is 0 when one is ready, else the time
\* to the first timer, else -1.
g_main_context_prepare ==
    /\ lphase = "prepare"
    /\ LET R == {i \in Attached : srcs[i].rdy \/ prepare_hook(srcs[i], now)}
           V == Visited(R)
           timers == {i \in V : srcs[i].kind \in TimerKinds}
       IN  /\ srcs' = [i \in DOMAIN srcs |->
                        IF i \in V THEN [srcs[i] EXCEPT !.rdy = i \in R]
                        ELSE srcs[i]]
           /\ timeout' =
                IF R # {} THEN 0
                ELSE IF timers = {} THEN 0 - 1
                ELSE CHOOSE d \in {srcs[i].expire - now : i \in timers} :
                         \A i \in timers : d <= srcs[i].expire - now
    /\ lphase' = "poll"
    /\ iteration' = iteration + 1
    /\ UNCHANGED <<prog, now, pending, lrunning, order, execution_order,
                   call_num, orderIter, perturb, lateTotal>>
    /\ UNCHANGED notLoop

\* The poll step of the iteration: it returns once the timeout has passed,
\* or later (the poll steps of a run are late by MaxLate ticks at most, in
\* all); with timeout -1 it does not return.
g_main_context_poll ==
    /\ lphase = "poll"
    /\ timeout >= 0
    /\ \E late \in 0 .. MaxLate - lateTotal :
          /\ now' = now + timeout + late
          /\ lateTotal' = lateTotal + late
    /\ lphase' = "check"
    /\ UNCHANGED <<prog, srcs, timeout, pending, lrunning, order,
                   execution_order, call_num, iteration, orderIter, perturb>>
    /\ UNCHANGED notLoop

\* g_main_context_check: the check hook of each source visited that is not
\* flagged ready (counter_check counts the call); the ready sources of the
\* smallest priority value become the pending dispatches.
g_main_context_check ==
    /\ lphase = "check"
    /\ LET R == {i \in Attached : srcs[i].rdy \/ check_hook(srcs[i], now)}
           V == Visited(R)
       IN  /\ srcs' = [i \in DOMAIN srcs |->
                        IF i \in V
                        THEN [srcs[i] EXCEPT
                                !.rdy = i \in R,
                                !.counter =
                                    IF srcs[i].kind = "counter" /\ ~srcs[i].rdy
                                    THEN @ + 1 ELSE @]
                        ELSE srcs[i]]
           /\ pending' = Ascending(V \cap R)
    /\ lphase' = "dispatch"
    /\ UNCHANGED <<prog, now, timeout, lrunning, order, execution_order,
                   call_num, iteration, orderIter, perturb,
                   lateTotal>>
    /\ UNCHANGED notLoop

\* What a callback does: what it returns (cont, a set when the value is not
\* defined), whether it quits the loop, whether it counts execution_order.
Result(cont, quit, counts) ==
    [cont |-> {cont}, quit |-> quit, counts |-> counts]

\* idle_example: the n-th call of each callback.
idle_function(n) == Result(~(n >= 5), FALSE, FALSE)

high_priority_idle(n) == Result(~(n >= 3), FALSE, FALSE)

process_work(n) ==
    IF n >= 8 THEN Result(FALSE, TRUE, FALSE) ELSE Result(TRUE, FALSE, FALSE)

oneshot_idle == Result(FALSE, FALSE, FALSE)

\* simple_loop: the n-th call of timeout_callback.
timeout_callback(n) ==
    IF n >= 5 THEN Result(FALSE, TRUE, FALSE) ELSE Result(TRUE, FALSE, FALSE)

\* A repeating_timeout that never returns FALSE.
repeating_timeout_forever(n) == Result(TRUE, FALSE, FALSE)

\* timeout_example: the n-th call of each callback (max_count is 3).
repeating_timeout(n) == Result(~(n >= 3), FALSE, FALSE)

oneshot_timeout == Result(FALSE, FALSE, FALSE)

fast_timeout(n) ==
    IF n >= 10 THEN Result(FALSE, TRUE, FALSE) ELSE Result(TRUE, FALSE, FALSE)

seconds_timeout == Result(TRUE, FALSE, FALSE)

\* The user callback of a timer or idle source: what it returns (cont, a set
\* when the value is not defined), whether it quits the loop, whether it
\* counts execution_order.  g_main_loop_quit cast to GSourceFunc returns
\* nothing, so what the dispatcher reads as its result is any value.
Callback(name, n) ==
    CASE name = "stop_loop" ->
            [cont |-> {FALSE}, quit |-> TRUE, counts |-> FALSE]
      [] name = "quit_timer" ->
            [cont |-> BOOLEAN, quit |-> TRUE, counts |-> FALSE]
      [] name = "idle_function" -> idle_function(n)
      [] name = "high_priority_idle" -> high_priority_idle(n)
      [] name = "process_work" -> process_work(n)
      [] name = "oneshot_idle" -> oneshot_idle
      [] name = "timeout_callback" -> timeout_callback(n)
      [] name = "repeating_timeout" -> repeating_timeout(n)
      [] name = "oneshot_timeout" -> oneshot_timeout
      [] name = "fast_timeout" -> fast_timeout(n)
      [] name = "seconds_timeout" -> seconds_timeout
      [] OTHER ->
            [cont |-> {FALSE}, quit |-> FALSE, counts |-> TRUE]

\* The source at the head of the pending dispatches, still attached.
NextDispatch(kind) ==
    /\ lphase = "dispatch"
    /\ pending # <<>>
    /\ srcs[Head(pending)].attached
    /\ srcs[Head(pending)].kind = kind

\* The source with its callback called once more.
Called(s) == [s EXCEPT !.call_count = @ + 1]

\* After the dispatch of source i returned cont: the ready flag is cleared; a
\* source whose dispatch returned FALSE is destroyed, which drops the
\* context's reference, the last one, and runs the finalize hook of a source
\* that has one (counter_finalize).
AfterDispatch(s, cont) ==
    [s EXCEPT !.rdy = FALSE,
              !.attached = cont,
              !.expire = IF cont /\ s.kind \in TimerKinds
                         THEN g_timeout_set_expiration(s.kind, s.interval,
                                                       now, perturb)
                         ELSE @,
              !.fin = IF ~cont /\ s.kind = "counter" THEN @ + 1 ELSE @]

\* g_timeout_dispatch / g_idle_dispatch: call the callback; a timer that
\* stays is set to expire one interval from now.
g_timeout_dispatch ==
    /\ NextDispatch("timeout") \/ NextDispatch("seconds")
    /\ LET i == Head(pending)
           cb == Callback(srcs[i].name, srcs[i].call_count + 1)
       IN  /\ \E cont \in cb.cont :
                 srcs' = [srcs EXCEPT
                            ![i] = AfterDispatch(Called(srcs[i]), cont)]
           /\ lrunning' = (lrunning /\ ~cb.quit)
           /\ execution_order' =
                IF cb.counts THEN execution_order + 1 ELSE execution_order
           /\ order' = Append(order, srcs[i].name)
    /\ pending' = Tail(pending)
    /\ orderIter' = Append(orderIter, iteration)
    /\ UNCHANGED <<prog, now, lphase, timeout, call_num, iteration, perturb, lateTotal>>
    /\ UNCHANGED notLoop

g_idle_dispatch ==
    /\ NextDispatch("idle")
    /\ LET i == Head(pending)
           cb == Callback(srcs[i].name, srcs[i].call_count + 1)
       IN  /\ \E cont \in cb.cont :
                 srcs' = [srcs EXCEPT
                            ![i] = AfterDispatch(Called(srcs[i]), cont)]
           /\ lrunning' = (lrunning /\ ~cb.quit)
           /\ execution_order' =
                IF cb.counts THEN execution_order + 1 ELSE execution_order
           /\ order' = Append(order, srcs[i].name)
    /\ pending' = Tail(pending)
    /\ orderIter' = Append(orderIter, iteration)
    /\ UNCHANGED <<prog, now, lphase, timeout, call_num, iteration, perturb, lateTotal>>
    /\ UNCHANGED notLoop

\* counter_callback: return FALSE.
counter_callback == FALSE

\* counter_dispatch: return callback(user_data).
counter_dispatch ==
    /\ NextDispatch("counter")
    /\ LET i == Head(pending)
       IN  /\ srcs' = [srcs EXCEPT
                         ![i] = AfterDispatch(srcs[i], counter_callback)]
           /\ order' = Append(order, srcs[i].name)
    /\ pending' = Tail(pending)
    /\ orderIter' = Append(orderIter, iteration)
    /\ UNCHANGED <<prog, now, lphase, timeout, lrunning, execution_order,
                   call_num, iteration, perturb, lateTotal>>
    /\ UNCHANGED notLoop

\* simple_callback: call_num++; return call_num < 5.
simple_callback(n) == n + 1 < 5

\* A simple_dispatch that returns TRUE whatever call_count and the callback
\* say.
simple_dispatch_continues ==
    /\ NextDispatch("simple")
    /\ LET i == Head(pending)
           count == srcs[i].call_count + 1
       IN  /\ srcs' = [srcs EXCEPT
                         ![i] = AfterDispatch(
                                    [srcs[i] EXCEPT !.call_count = count],
                                    TRUE)]
           /\ order' = Append(order, srcs[i].name)
    /\ call_num' = call_num + 1
    /\ pending' = Tail(pending)
    /\ orderIter' = Append(orderIter, iteration)
    /\ UNCHANGED <<prog, now, lphase, timeout, lrunning, execution_order,
                   iteration, perturb, lateTotal>>
    /\ UNCHANGED notLoop

\* simple_dispatch: call_count++; continue_source = callback(user_data);
\* FALSE once call_count >= max_calls, else continue_source.
simple_dispatch ==
    /\ NextDispatch("simple")
    /\ LET i == Head(pending)
           count == srcs[i].call_count + 1
           cont == IF count >= srcs[i].trigger THEN FALSE
                   ELSE simple_callback(call_num)
       IN  /\ srcs' = [srcs EXCEPT
                         ![i] = AfterDispatch(
                                    [srcs[i] EXCEPT !.call_count = count],
                                    cont)]
           /\ order' = Append(order, srcs[i].name)
    /\ call_num' = call_num + 1
    /\ pending' = Tail(pending)
    /\ orderIter' = Append(orderIter, iteration)
    /\ UNCHANGED <<prog, now, lphase, timeout, lrunning, execution_order,
                   iteration, perturb, lateTotal>>
    /\ UNCHANGED notLoop

\* A run that goes on iterating after g_main_loop_quit.
g_main_loop_run_ignores_quit ==
    /\ lphase = "dispatch"
    /\ pending = <<>>
    /\ lphase' = "prepare"
    /\ UNCHANGED <<prog, now, srcs, timeout, pending, lrunning, order,
                   execution_order, call_num, iteration, orderIter, perturb,
                   lateTotal>>
    /\ UNCHANGED notLoop

\* g_main_loop_run: after the pending dispatches, the next iteration while
\* is_running, else return to main, which returns 0.
g_main_loop_run ==
    /\ lphase = "dispatch"
    /\ pending = <<>>
    /\ lphase' = IF lrunning THEN "prepare" ELSE "done"
    /\ UNCHANGED <<prog, now, srcs, timeout, pending, lrunning, order,
                   execution_order, call_num, iteration, orderIter, perturb,
                   lateTotal>>
    /\ UNCHANGED notLoop

LoopNext ==
    \/ main_g_main_loop_run
    \/ g_main_context_prepare
    \/ g_main_context_poll
    \/ g_main_context_check
    \/ g_timeout_dispatch
    \/ g_idle_dispatch
    \/ counter_dispatch
    \/ simple_dispatch
    \/ g_main_loop_run

SpecLoop == LoopInit /\ [][LoopNext]_vars

(***************************************************************************)
(* Claims about sources of the default context                             *)
(***************************************************************************)

\* C9 (as the specification states it): the finalize hook of every source
\* that has one runs exactly once: never twice, never while the source is
\* attached, and by the time the program has returned from g_main_loop_run it
\* has run.
C9_FinalizeExactlyOnce ==
    \A i \in DOMAIN srcs :
        srcs[i].kind = "counter" =>
            /\ srcs[i].fin <= 1
            /\ (srcs[i].fin = 1 => ~srcs[i].attached)
            /\ (lphase = "done" => srcs[i].fin = 1)

\* The three 100 ms timeouts of priority_example.c among the dispatches.
TimeoutOrder ==
    SelectSeq(order,
              LAMBDA n : n \in {"low_source", "default_source", "high_source"})

IsPrefix(s, t) == Len(s) <= Len(t) /\ s = SubSeq(t, 1, Len(s))

\* A source that would be found ready now.
ReadyNow(i) ==
    srcs[i].attached /\ (srcs[i].rdy \/ prepare_hook(srcs[i], now))

\* C10: a source is dispatched only when no attached source that is ready has
\* a smaller priority value, whatever the order of attachment; the three
\* timeouts of priority_example, attached LOW, DEFAULT, HIGH and expiring
\* together, are dispatched HIGH, then DEFAULT, then LOW.
C10_AscendingPriority ==
    /\ lphase = "dispatch" =>
          \A k \in 1 .. Len(pending) : \A j \in DOMAIN srcs :
              ReadyNow(j) => srcs[pending[k]].priority <= srcs[j].priority
    /\ prog = "priority_example" =>
          IsPrefix(TimeoutOrder,
                   <<"high_source", "default_source", "low_source">>)

\* C10 witness: priority_example has dispatched the three timeouts.
C10_Witness ==
    /\ prog = "priority_example"
    /\ TimeoutOrder = <<"high_source", "default_source", "low_source">>


\* The callbacks of priority_example.c that count execution_order, among the
\* dispatches.
ExecutionOrder == SelectSeq(order, LAMBDA n : n # "stop_loop")

\* C12 (as the program prints it under "Expected order"): in a run of
\* priority_example the five callbacks execute in the order HIGH timeout,
\* DEFAULT timeout, HIGH_IDLE idle, DEFAULT_IDLE idle, LOW timeout.
C12_ExpectedOrder ==
    prog = "priority_example" =>
        IsPrefix(ExecutionOrder,
                 <<"high_source", "default_source", "high_idle",
                   "default_idle", "low_source">>)

\* The source added under a name, by its place in the order of attachment.
SourceIndex(name) == CHOOSE i \in DOMAIN srcs : srcs[i].name = name

\* How often the source of that name has been dispatched.
Dispatches(name) == Len(SelectSeq(order, LAMBDA n : n = name))

\* C11: two sources of equal priority dispatched in the same iteration are
\* dispatched in the order of their attachment; in idle_example, whenever
\* idle_function and oneshot_idle are dispatched in one iteration,
\* idle_function runs first.
C11_AttachmentOrder ==
    \A k \in 1 .. Len(order) : \A l \in 1 .. Len(order) :
        (/\ k < l
         /\ orderIter[k] = orderIter[l]
         /\ srcs[SourceIndex(order[k])].priority
                = srcs[SourceIndex(order[l])].priority)
        => /\ SourceIndex(order[k]) < SourceIndex(order[l])
           /\ (prog = "idle_example" /\ order[l] = "idle_function")
                  => order[k] # "oneshot_idle"

\* C11 witness: idle_example has dispatched idle_function and then
\* oneshot_idle in one iteration.
C11_Witness ==
    /\ prog = "idle_example"
    /\ \E k \in 1 .. Len(order) - 1 :
          /\ order[k] = "idle_function"
          /\ order[k + 1] = "oneshot_idle"
          /\ orderIter[k] = orderIter[k + 1]

\* C13: while an idle source is about to be dispatched no attached source of
\* a smaller priority value is ready; in idle_example, while idle_function is
\* about to be dispatched neither high_priority_idle nor the 200 ms work
\* timer is ready.
C13_IdleOnlyWhenNothingHigherReady ==
    (lphase = "dispatch" /\ pending # <<>>
        /\ srcs[Head(pending)].kind = "idle") =>
        /\ \A j \in DOMAIN srcs :
              ReadyNow(j) =>
                  srcs[Head(pending)].priority <= srcs[j].priority
        /\ (prog = "idle_example"
              /\ srcs[Head(pending)].name = "idle_function") =>
                 /\ ~ReadyNow(SourceIndex("high_priority_idle"))
                 /\ ~ReadyNow(SourceIndex("process_work"))

\* C13 witness: in idle_example high_priority_idle is about to be dispatched
\* and idle_function, ready as well, is held back.
C13_Witness ==
    /\ prog = "idle_example"
    /\ lphase = "dispatch"
    /\ pending = <<SourceIndex("high_priority_idle")>>
    /\ ReadyNow(SourceIndex("idle_function"))

\* C18: once g_main_loop_quit has been called from a callback the run starts
\* no further iteration: it only finishes the dispatches of the current one
\* and returns; in simple_loop timeout_callback runs 5 times, no more, and
\* the loop is not running before the run and after it.
C18_QuitEndsRun ==
    /\ (~lrunning /\ lphase # "setup") => lphase \in {"dispatch", "done"}
    /\ \A k \in 1 .. Len(orderIter) : orderIter[k] <= iteration
    /\ prog = "simple_loop" =>
          /\ Dispatches("timeout_callback") <= 5
          /\ lphase = "setup" => ~lrunning
          /\ lphase = "done" =>
                (~lrunning /\ Dispatches("timeout_callback") = 5)
          /\ lrunning => Dispatches("timeout_callback") < 5

\* C18 witness: simple_loop's run has returned.
C18_Witness ==
    /\ prog = "simple_loop"
    /\ lphase = "done"
    /\ Dispatches("timeout_callback") = 5

\* fast_timeout and seconds_timeout are both attached.
BothTimersAttached ==
    /\ prog = "timeout_example"
    /\ srcs[SourceIndex("fast_timeout")].attached
    /\ srcs[SourceIndex("seconds_timeout")].attached

NUM_THREADS == 3

ITERATIONS_PER_THREAD == 2

Threads == 1 .. NUM_THREADS

\* main is past g_mutex_init and shared_counter = 0, about to create the
\* first thread.
MutexStart ==
    /\ mmain = "create"
    /\ created = 0
    /\ joined = 0
    /\ shared_counter = 0
    /\ counter_mutex = 0
    /\ tpc = [t \in Threads |-> "unborn"]
    /\ ti = [t \in Threads |-> 0]
    /\ temp = [t \in Threads |-> 0]

MutexInit ==
    /\ MutexStart
    /\ RingStart(NullPtr)
    /\ LoopIdle
    /\ ContextsIdle
    /\ ThreadsIdle
    /\ QueueIdle
    /\ TaskIdle
    /\ RaceIdle
    /\ TimeoutIdle

\* The for statement of protected_increment_thread: the body runs while
\* i < iterations.
LoopTest(i, iterations) == IF i < iterations THEN "lock" ELSE "done"

\* threads[i] = g_thread_new("protected", protected_increment_thread,
\* GINT_TO_POINTER(ITERATIONS_PER_THREAD)), the loop of main.
main_g_thread_new ==
    /\ mmain = "create"
    /\ created' = created + 1
    /\ tpc' = [tpc EXCEPT ![created + 1] = LoopTest(0, ITERATIONS_PER_THREAD)]
    /\ mmain' = IF created + 1 < NUM_THREADS THEN "create" ELSE "join"
    /\ UNCHANGED <<joined, shared_counter, counter_mutex, ti, temp>>
    /\ UNCHANGED notMutex

\* A lock that excludes nobody.
g_mutex_free_for_all(holder) == TRUE

\* g_mutex_lock returns once no thread holds the mutex.
g_mutex_available(holder) == holder = 0

\* g_mutex_lock(&counter_mutex)
g_mutex_lock(t) ==
    /\ tpc[t] = "lock"
    /\ g_mutex_available(counter_mutex)
    /\ counter_mutex' = t
    /\ tpc' = [tpc EXCEPT ![t] = "read"]
    /\ UNCHANGED <<mmain, created, joined, shared_counter, ti, temp>>
    /\ UNCHANGED notMutex

\* gint temp = shared_counter; g_usleep(1) follows, during which any other
\* thread may run.
read_shared_counter(t) ==
    /\ tpc[t] = "read"
    /\ temp' = [temp EXCEPT ![t] = shared_counter]
    /\ tpc' = [tpc EXCEPT ![t] = "write"]
    /\ UNCHANGED <<mmain, created, joined, shared_counter, counter_mutex, ti>>
    /\ UNCHANGED notMutex

\* shared_counter = temp + 1
write_shared_counter(t) ==
    /\ tpc[t] = "write"
    /\ shared_counter' = temp[t] + 1
    /\ tpc' = [tpc EXCEPT ![t] = "unlock"]
    /\ UNCHANGED <<mmain, created, joined, counter_mutex, ti, temp>>
    /\ UNCHANGED notMutex

\* g_mutex_unlock(&counter_mutex), the end of the loop body (temp goes out
\* of scope) and i++.
g_mutex_unlock(t) ==
    /\ tpc[t] = "unlock"
    /\ counter_mutex' = 0
    /\ ti' = [ti EXCEPT ![t] = ti[t] + 1]
    /\ temp' = [temp EXCEPT ![t] = 0]
    /\ tpc' = [tpc EXCEPT ![t] = LoopTest(ti[t] + 1, ITERATIONS_PER_THREAD)]
    /\ UNCHANGED <<mmain, created, joined, shared_counter>>
    /\ UNCHANGED notMutex

protected_increment_thread ==
    \E t \in Threads :
        \/ g_mutex_lock(t)
        \/ read_shared_counter(t)
        \/ write_shared_counter(t)
        \/ g_mutex_unlock(t)

\* g_thread_join(threads[i]), the second loop of main: it returns once the
\* thread has returned.
main_g_thread_join ==
    /\ mmain = "join"
    /\ tpc[joined + 1] = "done"
    /\ joined' = joined + 1
    /\ mmain' = IF joined + 1 < NUM_THREADS THEN "join" ELSE "report"
    /\ UNCHANGED <<created, shared_counter, counter_mutex, tpc, ti, temp>>
    /\ UNCHANGED notMutex

\* gint expected = NUM_THREADS * ITERATIONS_PER_THREAD
expected == NUM_THREADS * ITERATIONS_PER_THREAD

MutexNext ==
    \/ main_g_thread_new
    \/ protected_increment_thread
    \/ main_g_thread_join

SpecMutex == MutexInit /\ [][MutexNext]_vars

(***************************************************************************)
(* Claims about counter_mutex                                              *)
(***************************************************************************)

\* The threads between g_mutex_lock and g_mutex_unlock.
InCriticalSection == {t \in Threads : tpc[t] \in {"read", "write", "unlock"}}

\* The increments the first n threads have completed: the loop passes they
\* have finished and the pass whose store they have made.
RECURSIVE Increments(_)
Increments(n) ==
    IF n = 0 THEN 0
    ELSE Increments(n - 1) + ti[n] + (IF tpc[n] = "unlock" THEN 1 ELSE 0)

\* C20: at most one thread is inside the critical section at any instant, no
\* increment a thread has made is ever missing from shared_counter, and when
\* main has joined every thread shared_counter equals
\* NUM_THREADS x ITERATIONS_PER_THREAD.
C20_NoLostUpdate ==
    mmain # "none" =>
        /\ Cardinality(InCriticalSection) <= 1
        /\ shared_counter = Increments(NUM_THREADS)
        /\ mmain = "report" => shared_counter = expected

\* C20: main has joined every thread after each of them made all its passes
\* through the critical section.
C20_Witness ==
    /\ mmain = "report"
    /\ joined = NUM_THREADS
    /\ \A t \in Threads : ti[t] = ITERATIONS_PER_THREAD /\ tpc[t] = "done"

(***************************************************************************)
(* multiple_contexts.c                                                     *)
(***************************************************************************)

\* Ticks the g_usleep calls of one run oversleep, in all.
MaxOversleep == 1

Contexts == {1, 2}

\* if (data->counter >= 3) in context1_timeout and if (data1.counter >= 3) in
\* main; 5 for the second context.
CounterLimit(i) == IF i = 1 THEN 3 ELSE 5

\* main up to the while statement: two new contexts, nobody owning them, a
\* timeout source of 1000 ms attached to the first and one of 500 ms to the
\* second.
ContextsStart ==
    /\ cpc = "while"
    /\ cidx = 1
    /\ cnow = 0
    /\ cowner = [i \in Contexts |-> "none"]
    /\ cowner_count = [i \in Contexts |-> 0]
    /\ csource =
           [i \in Contexts |->
               IF i = 1
               THEN g_timeout_source_new("context1_timeout", 1000,
                                         G_PRIORITY_DEFAULT)
               ELSE g_timeout_source_new("context2_timeout", 500,
                                         G_PRIORITY_DEFAULT)]
    /\ ccounter = [i \in Contexts |-> 0]
    /\ cactive = [i \in Contexts |-> TRUE]
    /\ acquired = [i \in Contexts |-> 0]
    /\ released = [i \in Contexts |-> 0]
    /\ iterated = [i \in Contexts |-> 0]
    /\ overslept = 0

ContextsInit ==
    /\ ContextsStart
    /\ RingStart(NullPtr)
    /\ LoopIdle
    /\ MutexIdle
    /\ ThreadsIdle
    /\ QueueIdle
    /\ TaskIdle
    /\ RaceIdle
    /\ TimeoutIdle

\* Where main goes after the block of context i: to the block of the second
\* context when that is still active, else to g_usleep.
AfterBlock(i, active) ==
    IF i = 1 /\ active[2] THEN <<2, "acquire">> ELSE <<i, "usleep">>

\* while (context1_active || context2_active) and the if that opens the
\* block of the first active context.
main_while ==
    /\ cpc = "while"
    /\ IF cactive[1] \/ cactive[2]
       THEN /\ cidx' = IF cactive[1] THEN 1 ELSE 2
            /\ cpc' = "acquire"
       ELSE /\ cidx' = cidx
            /\ cpc' = "done"
    /\ UNCHANGED <<cnow, cowner, cowner_count, csource, ccounter, cactive,
                   acquired, released, iterated, overslept>>
    /\ UNCHANGED notContexts

\* An acquire that never takes the context.
g_main_context_acquire_never(owner, self) == FALSE

\* g_main_context_acquire succeeds when no thread or the calling thread owns
\* the context.
g_main_context_acquire_result(owner, self) == owner \in {"none", self}

\* g_main_context_acquire(context1) and g_main_context_acquire(context2);
\* main ignores the result.
g_main_context_acquire ==
    /\ cpc = "acquire"
    /\ IF g_main_context_acquire_result(cowner[cidx], "main")
       THEN /\ cowner' = [cowner EXCEPT ![cidx] = "main"]
            /\ cowner_count' = [cowner_count EXCEPT ![cidx] = @ + 1]
       ELSE UNCHANGED <<cowner, cowner_count>>
    /\ acquired' = [acquired EXCEPT ![cidx] = @ + 1]
    /\ cpc' = "pending"
    /\ UNCHANGED <<cidx, cnow, csource, ccounter, cactive, released, iterated,
                   overslept>>
    /\ UNCHANGED notContexts

\* The timeout source of context i has expired.
TimeoutReady(i) == csource[i].attached /\ cnow >= csource[i].expire

\* if (g_main_context_pending(context)): a check of the context without
\* dispatching; the ownership it takes for the check it gives back.
g_main_context_pending ==
    /\ cpc = "pending"
    /\ cpc' = IF TimeoutReady(cidx) THEN "iteration" ELSE "counter"
    /\ UNCHANGED <<cidx, cnow, cowner, cowner_count, csource, ccounter,
                   cactive, acquired, released, iterated, overslept>>
    /\ UNCHANGED notContexts

\* context1_timeout and context2_timeout: data->counter++, and FALSE once
\* the counter has reached the limit.
context_timeout(i, counter) ==
    [counter |-> counter + 1, cont |-> ~(counter + 1 >= CounterLimit(i))]

\* g_main_context_iteration(context, FALSE): the expired timeout source is
\* dispatched; it is removed when the callback returned FALSE and started
\* again from the current time otherwise.
g_main_context_iteration ==
    /\ cpc = "iteration"
    /\ iterated' = [iterated EXCEPT ![cidx] = @ + 1]
    /\ IF TimeoutReady(cidx)
       THEN LET r == context_timeout(cidx, ccounter[cidx])
                s == csource[cidx]
            IN  /\ ccounter' = [ccounter EXCEPT ![cidx] = r.counter]
                /\ csource' =
                       [csource EXCEPT ![cidx] =
                           [s EXCEPT !.call_count = @ + 1,
                                     !.attached = r.cont,
                                     !.fin = IF r.cont THEN @ ELSE @ + 1,
                                     !.expire =
                                         g_timeout_set_expiration(
                                             "timeout", s.interval, cnow, 0)]]
       ELSE UNCHANGED <<ccounter, csource>>
    /\ cpc' = "counter"
    /\ UNCHANGED <<cidx, cnow, cowner, cowner_count, cactive, acquired,
                   released, overslept>>
    /\ UNCHANGED notContexts

\* if (data1.counter >= 3) context1_active = FALSE, and the same for the
\* second context with 5.
main_check_counter ==
    /\ cpc = "counter"
    /\ cactive' = [cactive EXCEPT
                      ![cidx] = IF ccounter[cidx] >= CounterLimit(cidx)
                                THEN FALSE ELSE @]
    /\ cpc' = "release"
    /\ UNCHANGED <<cidx, cnow, cowner, cowner_count, csource, ccounter,
                   acquired, released, iterated, overslept>>
    /\ UNCHANGED notContexts

\* g_main_context_release(context): the owner gives up one acquisition, and
\* the context has no owner when none is left.  Then the block of the other
\* context or g_usleep.
g_main_context_release ==
    /\ cpc = "release"
    /\ IF cowner[cidx] = "main"
       THEN /\ cowner_count' = [cowner_count EXCEPT ![cidx] = @ - 1]
            /\ cowner' = [cowner EXCEPT
                             ![cidx] = IF cowner_count[cidx] = 1
                                       THEN "none" ELSE @]
       ELSE UNCHANGED <<cowner, cowner_count>>
    /\ released' = [released EXCEPT ![cidx] = @ + 1]
    /\ cidx' = AfterBlock(cidx, cactive)[1]
    /\ cpc' = AfterBlock(cidx, cactive)[2]
    /\ UNCHANGED <<cnow, csource, ccounter, cactive, acquired, iterated,
                   overslept>>
    /\ UNCHANGED notContexts

\* g_usleep(100000): at least 100 ms pass.
main_g_usleep ==
    /\ cpc = "usleep"
    /\ \E late \in 0 .. MaxOversleep - overslept :
           /\ cnow' = cnow + Ticks(100) + late
           /\ overslept' = overslept + late
    /\ cpc' = "while"
    /\ UNCHANGED <<cidx, cowner, cowner_count, csource, ccounter, cactive,
                   acquired, released, iterated>>
    /\ UNCHANGED notContexts

ContextsNext ==
    \/ main_while
    \/ g_main_context_acquire
    \/ g_main_context_pending
    \/ g_main_context_iteration
    \/ main_check_counter
    \/ g_main_context_release
    \/ main_g_usleep

SpecContexts == ContextsInit /\ [][ContextsNext]_vars

(***************************************************************************)
(* Claims about context ownership                                          *)
(***************************************************************************)

\* main is between g_main_context_acquire and g_main_context_release of
\* context i.
InBlock(i) ==
    cidx = i /\ cpc \in {"pending", "iteration", "counter", "release"}

\* C17: whenever main is about to call g_main_context_iteration on a context
\* it owns that context through the g_main_context_acquire of the enclosing
\* block; a context has an owner exactly while main is between the acquire
\* and the release of its block, so every acquire is followed by its release
\* and main never holds both contexts; nobody but main ever owns a context.
C17_IterationWhileOwned ==
    cpc # "none" =>
        /\ cpc = "iteration" =>
               cowner[cidx] = "main" /\ cowner_count[cidx] = 1
        /\ \A i \in Contexts :
               /\ cowner[i] \in {"none", "main"}
               /\ cowner[i] = "main" <=> InBlock(i)
               /\ cowner_count[i] = IF InBlock(i) THEN 1 ELSE 0
               /\ acquired[i] = released[i] + cowner_count[i]
               /\ iterated[i] <= acquired[i]
        /\ cpc = "done" =>
               \A i \in Contexts : cowner[i] = "none" /\ iterated[i] > 0

\* C17: main has left the while statement after iterating the first context
\* three times and the second five times, each time between an acquire and
\* a release, and after acquiring and releasing them more often than that.
C17_Witness ==
    /\ cpc = "done"
    /\ iterated = <<3, 5>>
    /\ \A i \in Contexts :
           acquired[i] > iterated[i] /\ released[i] = acquired[i]

(***************************************************************************)
(* context_threading.c                                                     *)
(***************************************************************************)

\* for (gint i = 0; i < 5; i++) in worker_thread
WorkerIterations == 5

\* if (work_counter >= 10) in update_from_worker
WorkLimit == 10

\* if (timeout_count >= 3) in the callback of context_owner_thread
TimeoutLimit == 3

Workers == {1, 2}

\* The names main gives the threads it creates.
WorkerName(w) == IF w = 1 THEN "worker1" ELSE "worker2"

ThreadNames == {"main", "worker1", "worker2", "context-owner"}

\* g_main_context_get_thread_default: the top of the calling thread's stack,
\* NULL when the stack is empty.
g_main_context_get_thread_default(stack) ==
    IF stack = <<>> THEN "NULL" ELSE Head(stack)

\* A push that lands on nobody's stack.
g_main_context_push_nothing(stack, context) == stack

\* g_main_context_push_thread_default(context): on top of the calling
\* thread's stack; the global default context is pushed as NULL.
g_main_context_push_thread_default(stack, context) ==
    <<IF context = "default" THEN "NULL" ELSE context>> \o stack

\* g_main_context_pop_thread_default(context): the top of the calling
\* thread's stack goes when it is context.
g_main_context_pop_thread_default(stack, context) ==
    IF /\ stack # <<>>
       /\ Head(stack) = (IF context = "default" THEN "NULL" ELSE context)
    THEN Tail(stack) ELSE stack

\* g_idle_add attaches with g_source_attach(source, NULL), that is to the
\* global default context, whatever the calling thread's stack holds.
g_idle_add_context(stack) == "default"

\* A wakeup nobody signals.
g_wakeup_never(owner, self) == FALSE

\* g_source_attach signals the wakeup of the context when another thread
\* owns it, since that thread may be in poll.
g_wakeup_needed(owner, self) == owner # "none" /\ owner # self

\* main starts.
ThreadsStart ==
    /\ xmain = "get_thread_default"
    /\ thread_default = [t \in ThreadNames |-> <<>>]
    /\ main_default = "unset"
    /\ wpc = [w \in Workers |-> "unborn"]
    /\ wi = [w \in Workers |-> 0]
    /\ qsrcs = <<>>
    /\ dphase = "none"
    /\ dtimeout = 0
    /\ dpending = 0
    /\ downer = "none"
    /\ wake = FALSE
    /\ wrevents = FALSE
    /\ work_counter = 0
    /\ main_running = FALSE
    /\ executors = {}
    /\ kpc = "unborn"
    /\ match = "unset"
    /\ timeout_count = 0
    /\ krunning = FALSE

ThreadsInit ==
    /\ ThreadsStart
    /\ RingStart(NullPtr)
    /\ LoopIdle
    /\ MutexIdle
    /\ ContextsIdle
    /\ QueueIdle
    /\ TaskIdle
    /\ RaceIdle
    /\ TimeoutIdle

\* main prints g_main_context_get_thread_default() and creates main_loop on
\* the default context, not running.
ct_get_thread_default ==
    /\ xmain = "get_thread_default"
    /\ main_default' =
           g_main_context_get_thread_default(thread_default["main"])
    /\ xmain' = "new_workers"
    /\ UNCHANGED <<thread_default, wpc, wi, qsrcs, dphase, dtimeout, dpending,
                   downer, wake, wrevents, work_counter, main_running,
                   executors, kpc, match, timeout_count, krunning>>
    /\ UNCHANGED notThreads

\* The for statement of worker_thread.
WorkerTest(i) == IF i < WorkerIterations THEN "usleep" ELSE "done"

\* g_thread_new("worker1", worker_thread, ...) and then the same for worker2.
ct_g_thread_new_worker ==
    /\ xmain = "new_workers"
    /\ LET w == IF wpc[1] = "unborn" THEN 1 ELSE 2
       IN  /\ wpc' = [wpc EXCEPT ![w] = WorkerTest(0)]
           /\ xmain' = IF w = 2 THEN "run" ELSE "new_workers"
    /\ UNCHANGED <<thread_default, main_default, wi, qsrcs, dphase, dtimeout,
                   dpending, downer, wake, wrevents, work_counter,
                   main_running, executors, kpc, match, timeout_count,
                   krunning>>
    /\ UNCHANGED notThreads

\* g_usleep(500000) in worker_thread.
worker_g_usleep(w) ==
    /\ wpc[w] = "usleep"
    /\ wpc' = [wpc EXCEPT ![w] = "g_idle_add"]
    /\ UNCHANGED <<xmain, thread_default, main_default, wi, qsrcs, dphase,
                   dtimeout, dpending, downer, wake, wrevents, work_counter,
                   main_running, executors, kpc, match, timeout_count,
                   krunning>>
    /\ UNCHANGED notThreads

\* g_idle_add(update_from_worker, GINT_TO_POINTER(worker_id)) in
\* worker_thread, and i++: the source is attached under the lock of the
\* context, whoever owns the context.
worker_g_idle_add(w) ==
    /\ wpc[w] = "g_idle_add"
    /\ LET self == WorkerName(w)
           context == g_idle_add_context(thread_default[self])
       IN  /\ qsrcs' = Append(qsrcs, [thread |-> self, context |-> context])
           /\ wake' = IF /\ context = "default"
                         /\ g_wakeup_needed(downer, self)
                      THEN TRUE ELSE wake
    /\ wi' = [wi EXCEPT ![w] = @ + 1]
    /\ wpc' = [wpc EXCEPT ![w] = WorkerTest(wi[w] + 1)]
    /\ UNCHANGED <<xmain, thread_default, main_default, dphase, dtimeout,
                   dpending, downer, wrevents, work_counter, main_running,
                   executors, kpc, match, timeout_count, krunning>>
    /\ UNCHANGED notThreads

worker_thread ==
    \E w \in Workers : worker_g_usleep(w) \/ worker_g_idle_add(w)

\* The idle sources attached to the default context.
DefaultSources == SelectSeq(qsrcs, LAMBDA s : s.context = "default")

\* g_main_loop_run(main_loop): main acquires the default context and sets
\* is_running.
ct_g_main_loop_run ==
    /\ xmain = "run"
    /\ dphase = "none"
    /\ downer' = "main"
    /\ main_running' = TRUE
    /\ dphase' = "prepare"
    /\ UNCHANGED <<xmain, thread_default, main_default, wpc, wi, qsrcs,
                   dtimeout, dpending, wake, wrevents, work_counter,
                   executors, kpc, match, timeout_count, krunning>>
    /\ UNCHANGED notThreads

\* The prepare step: an idle source is always ready, so the poll must not
\* block when one is attached; with no source the poll blocks.
ct_prepare ==
    /\ dphase = "prepare"
    /\ dtimeout' = IF DefaultSources # <<>> THEN 0 ELSE 0 - 1
    /\ dphase' = "poll"
    /\ UNCHANGED <<xmain, thread_default, main_default, wpc, wi, qsrcs,
                   dpending, downer, wake, wrevents, work_counter,
                   main_running, executors, kpc, match, timeout_count,
                   krunning>>
    /\ UNCHANGED notThreads

\* The poll step: it returns at once with timeout 0 and otherwise when the
\* wakeup of the context is signalled.
ct_poll ==
    /\ dphase = "poll"
    /\ dtimeout = 0 \/ wake
    /\ wrevents' = wake
    /\ dphase' = "check"
    /\ UNCHANGED <<xmain, thread_default, main_default, wpc, wi, qsrcs,
                   dtimeout, dpending, downer, wake, work_counter,
                   main_running, executors, kpc, match, timeout_count,
                   krunning>>
    /\ UNCHANGED notThreads

\* The check step: a wakeup the poll reported is acknowledged, and every
\* idle source attached by now is pending.
ct_check ==
    /\ dphase = "check"
    /\ wake' = IF wrevents THEN FALSE ELSE wake
    /\ wrevents' = FALSE
    /\ dpending' = Len(DefaultSources)
    /\ dphase' = IF DefaultSources # <<>> THEN "dispatch" ELSE "test"
    /\ UNCHANGED <<xmain, thread_default, main_default, wpc, wi, qsrcs,
                   dtimeout, downer, work_counter, main_running, executors,
                   kpc, match, timeout_count, krunning>>
    /\ UNCHANGED notThreads

\* A dispatch that leaves the source attached.
RemoveNothing(q) == q

\* qsrcs without its first source of the default context.
RECURSIVE RemoveFirstDefault(_)
RemoveFirstDefault(q) ==
    IF q = <<>> THEN <<>>
    ELSE IF Head(q).context = "default" THEN Tail(q)
    ELSE <<Head(q)>> \o RemoveFirstDefault(Tail(q))

\* The dispatch of the next pending idle source by the thread that runs
\* main_loop: update_from_worker increments work_counter, quits the loop at
\* 10 and returns FALSE, so the source is removed.
update_from_worker ==
    /\ dphase = "dispatch"
    /\ dpending > 0
    /\ work_counter' = work_counter + 1
    /\ main_running' = IF work_counter + 1 >= WorkLimit
                       THEN FALSE ELSE main_running
    /\ executors' = executors \cup {downer}
    /\ qsrcs' = RemoveFirstDefault(qsrcs)
    /\ dpending' = dpending - 1
    /\ dphase' = IF dpending = 1 THEN "test" ELSE "dispatch"
    /\ UNCHANGED <<xmain, thread_default, main_default, wpc, wi, dtimeout,
                   downer, wake, wrevents, kpc, match, timeout_count,
                   krunning>>
    /\ UNCHANGED notThreads

\* while (g_atomic_int_get(&loop->is_running)) of g_main_loop_run: another
\* iteration, or main releases the context and the run returns.
ct_loop_test ==
    /\ dphase = "test"
    /\ IF main_running
       THEN /\ dphase' = "prepare"
            /\ UNCHANGED <<xmain, downer>>
       ELSE /\ dphase' = "returned"
            /\ downer' = "none"
            /\ xmain' = "join_worker1"
    /\ UNCHANGED <<thread_default, main_default, wpc, wi, qsrcs, dtimeout,
                   dpending, wake, wrevents, work_counter, main_running,
                   executors, kpc, match, timeout_count, krunning>>
    /\ UNCHANGED notThreads

\* The steps of the thread that runs main_loop.
MainLoopStep ==
    \/ ct_g_main_loop_run
    \/ ct_prepare
    \/ ct_poll
    \/ ct_check
    \/ update_from_worker
    \/ ct_loop_test

\* g_thread_join(worker1); g_thread_join(worker2);
ct_g_thread_join_worker ==
    /\ \/ /\ xmain = "join_worker1"
          /\ wpc[1] = "done"
          /\ xmain' = "join_worker2"
       \/ /\ xmain = "join_worker2"
          /\ wpc[2] = "done"
          /\ xmain' = "new_context_owner"
    /\ UNCHANGED <<thread_default, main_default, wpc, wi, qsrcs, dphase,
                   dtimeout, dpending, downer, wake, wrevents, work_counter,
                   main_running, executors, kpc, match, timeout_count,
                   krunning>>
    /\ UNCHANGED notThreads

\* g_thread_new("context-owner", context_owner_thread, NULL)
ct_g_thread_new_context_owner ==
    /\ xmain = "new_context_owner"
    /\ kpc' = "new"
    /\ xmain' = "join_context_owner"
    /\ UNCHANGED <<thread_default, main_default, wpc, wi, qsrcs, dphase,
                   dtimeout, dpending, downer, wake, wrevents, work_counter,
                   main_running, executors, match, timeout_count, krunning>>
    /\ UNCHANGED notThreads

\* g_main_context_new() and g_main_loop_new(context, FALSE)
owner_g_main_context_new ==
    /\ kpc = "new"
    /\ krunning' = FALSE
    /\ kpc' = "push"
    /\ UNCHANGED <<xmain, thread_default, main_default, wpc, wi, qsrcs, dphase,
                   dtimeout, dpending, downer, wake, wrevents, work_counter,
                   main_running, executors, match, timeout_count>>
    /\ UNCHANGED notThreads

\* g_main_context_push_thread_default(context)
owner_push_thread_default ==
    /\ kpc = "push"
    /\ thread_default' =
           [thread_default EXCEPT
               !["context-owner"] =
                   g_main_context_push_thread_default(@, "context")]
    /\ kpc' = "get"
    /\ UNCHANGED <<xmain, main_default, wpc, wi, qsrcs, dphase, dtimeout,
                   dpending, downer, wake, wrevents, work_counter,
                   main_running, executors, match, timeout_count, krunning>>
    /\ UNCHANGED notThreads

\* thread_default = g_main_context_get_thread_default() and the comparison
\* with context the thread prints; then the 500 ms timeout source is
\* attached to context.
owner_get_thread_default ==
    /\ kpc = "get"
    /\ match' =
           IF g_main_context_get_thread_default(
                  thread_default["context-owner"]) = "context"
           THEN "YES" ELSE "NO"
    /\ kpc' = "run"
    /\ UNCHANGED <<xmain, thread_default, main_default, wpc, wi, qsrcs, dphase,
                   dtimeout, dpending, downer, wake, wrevents, work_counter,
                   main_running, executors, timeout_count, krunning>>
    /\ UNCHANGED notThreads

\* g_main_loop_run(loop) of the context-owner thread starts.
owner_g_main_loop_run ==
    /\ kpc = "run"
    /\ krunning' = TRUE
    /\ kpc' = "loop"
    /\ UNCHANGED <<xmain, thread_default, main_default, wpc, wi, qsrcs, dphase,
                   dtimeout, dpending, downer, wake, wrevents, work_counter,
                   main_running, executors, match, timeout_count>>
    /\ UNCHANGED notThreads

\* An iteration of that loop: the timeout expires and its callback counts;
\* at 3 it quits the loop and returns FALSE.
owner_timeout_callback ==
    /\ kpc = "loop"
    /\ krunning
    /\ timeout_count' = timeout_count + 1
    /\ krunning' = ~(timeout_count + 1 >= TimeoutLimit)
    /\ UNCHANGED <<xmain, thread_default, main_default, wpc, wi, qsrcs, dphase,
                   dtimeout, dpending, downer, wake, wrevents, work_counter,
                   main_running, executors, kpc, match>>
    /\ UNCHANGED notThreads

\* g_main_loop_run(loop) returns.
owner_loop_returns ==
    /\ kpc = "loop"
    /\ ~krunning
    /\ kpc' = "pop"
    /\ UNCHANGED <<xmain, thread_default, main_default, wpc, wi, qsrcs, dphase,
                   dtimeout, dpending, downer, wake, wrevents, work_counter,
                   main_running, executors, match, timeout_count, krunning>>
    /\ UNCHANGED notThreads

\* g_main_context_pop_thread_default(context), the unrefs and return.
owner_pop_thread_default ==
    /\ kpc = "pop"
    /\ thread_default' =
           [thread_default EXCEPT
               !["context-owner"] =
                   g_main_context_pop_thread_default(@, "context")]
    /\ kpc' = "done"
    /\ UNCHANGED <<xmain, main_default, wpc, wi, qsrcs, dphase, dtimeout,
                   dpending, downer, wake, wrevents, work_counter,
                   main_running, executors, match, timeout_count, krunning>>
    /\ UNCHANGED notThreads

context_owner_thread ==
    \/ owner_g_main_context_new
    \/ owner_push_thread_default
    \/ owner_get_thread_default
    \/ owner_g_main_loop_run
    \/ owner_timeout_callback
    \/ owner_loop_returns
    \/ owner_pop_thread_default

\* g_thread_join(context_thread) and the rest of main.
ct_g_thread_join_context_owner ==
    /\ xmain = "join_context_owner"
    /\ kpc = "done"
    /\ xmain' = "done"
    /\ UNCHANGED <<thread_default, main_default, wpc, wi, qsrcs, dphase,
                   dtimeout, dpending, downer, wake, wrevents, work_counter,
                   main_running, executors, kpc, match, timeout_count,
                   krunning>>
    /\ UNCHANGED notThreads

ThreadsNext ==
    \/ ct_get_thread_default
    \/ ct_g_thread_new_worker
    \/ worker_thread
    \/ MainLoopStep
    \/ ct_g_thread_join_worker
    \/ ct_g_thread_new_context_owner
    \/ context_owner_thread
    \/ ct_g_thread_join_context_owner

SpecThreads == ThreadsInit /\ [][ThreadsNext]_vars

\* The thread that runs a loop is scheduled again and again.
SpecThreadsLive == SpecThreads /\ WF_vars(MainLoopStep)

(***************************************************************************)
(* Claims about threads and contexts                                       *)
(***************************************************************************)

\* The callbacks the workers have added so far.
Injected == wi[1] + wi[2]

\* C14: update_from_worker is only ever executed by main, the thread that
\* runs main_loop, never by a worker; a worker that has reached g_idle_add
\* can always complete it, whatever main is doing with the context; the
\* callbacks added and not yet executed are exactly the attached sources;
\* and whenever sources are attached while main is in the poll step, the
\* poll returns and every one of them is dispatched.
C14_InjectedRunsOnLoopThread ==
    /\ [](xmain # "none" =>
             /\ executors \subseteq {"main"}
             /\ Len(qsrcs) = Injected - work_counter
             /\ \A w \in Workers :
                    wpc[w] = "g_idle_add" => ENABLED worker_g_idle_add(w))
    /\ (dphase = "poll" /\ qsrcs # <<>>) ~> (qsrcs = <<>>)

\* C14: main is blocked in a poll without timeout, a worker has added a
\* callback since and signalled the wakeup, and main has executed the
\* callbacks added before.
C14_Witness ==
    /\ dphase = "poll"
    /\ dtimeout = 0 - 1
    /\ wake
    /\ qsrcs # <<>>
    /\ downer = "main"
    /\ work_counter >= 1
    /\ executors = {"main"}

\* The context a thread with this stack has as its current default: the top
\* of the stack, and the global default context when there is none.
CurrentDefault(stack) ==
    IF g_main_context_get_thread_default(stack) = "NULL"
    THEN "default"
    ELSE g_main_context_get_thread_default(stack)

\* C15: every source added with g_idle_add was attached to the current
\* default context of the thread that added it, and for every thread of the
\* program a g_idle_add called now would attach to the current default
\* context of that thread: the global default context when its stack is
\* empty, the pushed context when it has pushed one.
C15_AttachedToCallersDefault ==
    xmain # "none" =>
        /\ \A k \in 1 .. Len(qsrcs) :
               qsrcs[k].context = CurrentDefault(thread_default[qsrcs[k].thread])
        /\ \A t \in ThreadNames :
               g_idle_add_context(thread_default[t])
                   = CurrentDefault(thread_default[t])

\* C16: from g_main_context_push_thread_default(context) to the matching
\* pop the current default of the context-owner thread is context (the
\* thread prints Match: YES); before the push and after the pop it has
\* none; no other thread ever has a thread-default context, and main was
\* given NULL.
C16_PushPopRoundTrip ==
    xmain # "none" =>
        /\ kpc \in {"get", "run", "loop", "pop"} =>
               g_main_context_get_thread_default(
                   thread_default["context-owner"]) = "context"
        /\ kpc \in {"run", "loop", "pop", "done"} => match = "YES"
        /\ kpc \in {"unborn", "new", "push", "done"} =>
               g_main_context_get_thread_default(
                   thread_default["context-owner"]) = "NULL"
        /\ \A t \in ThreadNames \ {"context-owner"} :
               thread_default[t] = <<>>
        /\ main_default \in {"unset", "NULL"}

\* C16: the context-owner thread has pushed its context, found it to be its
\* thread default, run its loop and popped the context again.
C16_Witness ==
    /\ kpc = "done"
    /\ match = "YES"
    /\ timeout_count = TimeoutLimit
    /\ thread_default["context-owner"] = <<>>
    /\ main_default = "NULL"

(***************************************************************************)
(* Claims about descriptors, teardown and user data of the io_uring source *)
(***************************************************************************)

\* The write of call k was placed in the submission ring and has not
\* completed.
WritePending(k) ==
    \/ \E i \in 1 .. Len(sq) : sq[i].op = WriteOp(k)
    \/ \E o \in inflight : o.op = WriteOp(k)

\* Call k got past open() and g_strdup.
Opened(k) == bufAddr[k] # NullPtr

\* C21 (as the specification states it): the descriptor of a call is not
\* closed while the write of that call is queued or in flight.
C21_CloseAfterWriteCompletion ==
    \A k \in Calls : WritePending(k) => ~FdClosed(k)

\* C22 (as the specification states it): a descriptor opened by
\* submit_write_operation is never closed twice, and it has been closed once
\* main has returned.
C22_ClosedExactlyOnce ==
    \A k \in Calls :
        Opened(k) =>
            /\ Len(closes[k]) <= 1
            /\ (pc \in {"done", "exit1"} => Len(closes[k]) = 1)

\* C23 (as the specification states it): io_uring_queue_exit only ever runs
\* on a ring that io_uring_queue_init_params initialised, at most once, and
\* it has run once main has returned after a successful initialisation.
C23_QueueExitOnInitialisedRingOnly ==
    /\ Len(finalizeLog) <= 1
    /\ \A i \in 1 .. Len(finalizeLog) : finalizeLog[i] = "ok"
    /\ (pc = "done" \/ (pc = "exit1" /\ calls > 0)) => Len(finalizeLog) = 1

\* C24 (as the specification states it): the user data of a completion entry
\* the dispatch loop processed passed the test for g_free exactly when the
\* entry is the completion of a write.
C24_FreedIffWriteBuffer ==
    \A i \in 1 .. Len(handled) :
        LET cqe == cqes[handled[i]]
        IN  ShouldFree(cqe.data) <=> cqe.op.kind = "write"

(***************************************************************************)
(* Claims about the counter sources of custom_source.c                     *)
(***************************************************************************)

\* The counter sources of custom_source.c.
CounterSources == {i \in DOMAIN srcs : srcs[i].kind = "counter"}

\* How often the source called name has been dispatched.
DispatchCount(name) == Len(SelectSeq(order, LAMBDA n : n = name))

\* C25 (as the specification states it): when g_main_loop_run has returned
\* in custom_source, each of the two counter sources has been dispatched,
\* with its counter at trigger_value.
C25_BothCountersDispatched ==
    (prog = "custom_source" /\ lphase = "done") =>
        \A i \in CounterSources :
            /\ DispatchCount(srcs[i].name) = 1
            /\ srcs[i].counter = srcs[i].trigger

C30_CountedOncePerCallback ==
    /\ [](xmain # "none" =>
             /\ work_counter <= WorkLimit
             /\ work_counter = Injected - Len(qsrcs)
             /\ executors \subseteq {"main"})
    /\ [][xmain # "none" /\ work_counter' # work_counter =>
             /\ work_counter' = work_counter + 1
             /\ downer = "main"
             /\ main_running
             /\ executors' = {"main"}
             /\ Len(qsrcs') = Len(qsrcs) - 1
             /\ main_running' <=> work_counter' < WorkLimit
             /\ ~main_running' =>
                    /\ work_counter' = WorkLimit
                    /\ Injected = 2 * WorkerIterations
                    /\ qsrcs' = <<>>]_vars
    /\ [][xmain # "none" /\ main_running /\ ~main_running' =>
             work_counter' = WorkLimit /\ work_counter = WorkLimit - 1]_vars

\* C30: g_main_loop_run has returned after the tenth callback quit the loop.
C30_Witness ==
    /\ dphase = "returned"
    /\ work_counter = WorkLimit
    /\ ~main_running
    /\ qsrcs = <<>>
    /\ executors = {"main"}

(***************************************************************************)
(* async_queue.c: one producer and two consumers on a GAsyncQueue          *)
(***************************************************************************)

\* The tasks producer_thread creates, and the consumer threads main starts.
TaskCount == 10

ConsumerCount == 2

\* The termination signal producer_thread pushes.
NULL == 0

TaskIds == 1 .. TaskCount

Consumers == 1 .. ConsumerCount

\* g_async_queue_push(queue, data): a GLib built with its checks returns
\* at g_return_if_fail(data) when data is NULL and leaves the queue alone;
\* otherwise data becomes the newest item.
g_async_queue_push(queue, data, checks) ==
    IF checks /\ data = NULL THEN queue ELSE Append(queue, data)

\* The call was rejected with a critical warning.
g_async_queue_push_rejected(data, checks) == checks /\ data = NULL

\* A pop that leaves the item in the queue.
g_async_queue_peek_rest(queue) == queue

\* g_async_queue_pop(queue) returns the oldest item and removes it.
g_async_queue_pop_item(queue) == Head(queue)

g_async_queue_pop_rest(queue) == Tail(queue)

\* main has created the queue; GLib is one of the builds there are.
QueueStart ==
    /\ amain = "new_producer"
    /\ glib_checks \in BOOLEAN
    /\ glib_assert \in BOOLEAN
    /\ aqueue = <<>>
    /\ prod_pc = "unborn"
    /\ prod_i = 0
    /\ cons_pc = [c \in Consumers |-> "unborn"]
    /\ cons_task = [c \in Consumers |-> NULL]
    /\ popped = <<>>
    /\ processed = [t \in TaskIds |-> 0]
    /\ freed = [t \in TaskIds |-> 0]
    /\ criticals = 0
    /\ aborted = FALSE
    /\ final_length = -1

QueueInit ==
    /\ QueueStart
    /\ RingStart(NullPtr)
    /\ LoopIdle
    /\ MutexIdle
    /\ ContextsIdle
    /\ ThreadsIdle
    /\ TaskIdle
    /\ RaceIdle
    /\ TimeoutIdle

\* main: g_thread_new("producer", producer_thread, queue).
aq_g_thread_new_producer ==
    /\ ~aborted
    /\ amain = "new_producer"
    /\ amain' = "new_consumer"
    /\ prod_pc' = "loop"
    /\ prod_i' = 1
    /\ UNCHANGED <<glib_checks, glib_assert, aqueue, cons_pc, cons_task,
                   popped, processed, freed, criticals, aborted,
                   final_length>>
    /\ UNCHANGED notQueue

\* main: g_thread_new("consumer1" and "consumer2", consumer_thread, queue),
\* in that order.
aq_g_thread_new_consumer ==
    /\ ~aborted
    /\ amain = "new_consumer"
    /\ \E c \in Consumers :
          /\ cons_pc[c] = "unborn"
          /\ \A b \in Consumers : b < c => cons_pc[b] # "unborn"
          /\ cons_pc' = [cons_pc EXCEPT ![c] = "pop"]
          /\ amain' = IF c = ConsumerCount THEN "join_producer"
                      ELSE "new_consumer"
    /\ UNCHANGED <<glib_checks, glib_assert, aqueue, prod_pc, prod_i,
                   cons_task, popped, processed, freed, criticals, aborted,
                   final_length>>
    /\ UNCHANGED notQueue

\* producer_thread, one turn of the for statement: task_new, the push of
\* the task and g_usleep.
producer_push_task ==
    /\ ~aborted
    /\ prod_pc = "loop"
    /\ prod_i <= TaskCount
    /\ aqueue' = g_async_queue_push(aqueue, prod_i, glib_checks)
    /\ prod_i' = prod_i + 1
    /\ prod_pc' = IF prod_i + 1 <= TaskCount THEN "loop" ELSE "signal1"
    /\ UNCHANGED <<amain, glib_checks, glib_assert, cons_pc, cons_task,
                   popped, processed, freed, criticals, aborted,
                   final_length>>
    /\ UNCHANGED notQueue

\* producer_thread: g_async_queue_push(queue, NULL), the first and the
\* second; after the second the thread returns.
producer_push_null ==
    /\ ~aborted
    /\ prod_pc \in {"signal1", "signal2"}
    /\ aqueue' = g_async_queue_push(aqueue, NULL, glib_checks)
    /\ criticals' = IF g_async_queue_push_rejected(NULL, glib_checks)
                    THEN criticals + 1 ELSE criticals
    /\ prod_pc' = IF prod_pc = "signal1" THEN "signal2" ELSE "finished"
    /\ UNCHANGED <<amain, glib_checks, glib_assert, prod_i, cons_pc,
                   cons_task, popped, processed, freed, aborted,
                   final_length>>
    /\ UNCHANGED notQueue

producer_thread == producer_push_task \/ producer_push_null

\* consumer_thread: g_async_queue_pop blocks while the queue is empty;
\* it asserts that what it returns is not NULL. A task goes on to be
\* processed, NULL ends the while statement and the thread.
consumer_pop(c) ==
    /\ ~aborted
    /\ cons_pc[c] = "pop"
    /\ aqueue # <<>>
    /\ aqueue' = g_async_queue_pop_rest(aqueue)
    /\ LET task == g_async_queue_pop_item(aqueue)
       IN IF task = NULL
          THEN /\ aborted' = glib_assert
               /\ cons_pc' = IF glib_assert THEN cons_pc
                             ELSE [cons_pc EXCEPT ![c] = "finished"]
               /\ UNCHANGED <<cons_task, popped>>
          ELSE /\ cons_task' = [cons_task EXCEPT ![c] = task]
               /\ popped' = Append(popped, task)
               /\ cons_pc' = [cons_pc EXCEPT ![c] = "process"]
               /\ UNCHANGED aborted
    /\ UNCHANGED <<amain, glib_checks, glib_assert, prod_pc, prod_i,
                   processed, freed, criticals, final_length>>
    /\ UNCHANGED notQueue

\* consumer_thread: g_usleep and the print of "Completed task".
consumer_process(c) ==
    /\ ~aborted
    /\ cons_pc[c] = "process"
    /\ processed' = [processed EXCEPT ![cons_task[c]] = @ + 1]
    /\ cons_pc' = [cons_pc EXCEPT ![c] = "free"]
    /\ UNCHANGED <<amain, glib_checks, glib_assert, aqueue, prod_pc, prod_i,
                   cons_task, popped, freed, criticals, aborted,
                   final_length>>
    /\ UNCHANGED notQueue

\* consumer_thread: task_free(task), and back to the pop.
consumer_task_free(c) ==
    /\ ~aborted
    /\ cons_pc[c] = "free"
    /\ freed' = [freed EXCEPT ![cons_task[c]] = @ + 1]
    /\ cons_task' = [cons_task EXCEPT ![c] = NULL]
    /\ cons_pc' = [cons_pc EXCEPT ![c] = "pop"]
    /\ UNCHANGED <<amain, glib_checks, glib_assert, aqueue, prod_pc, prod_i,
                   popped, processed, criticals, aborted, final_length>>
    /\ UNCHANGED notQueue

consumer_thread(c) ==
    consumer_pop(c) \/ consumer_process(c) \/ consumer_task_free(c)

\* main: g_thread_join(producer) returns when producer_thread has.
aq_g_thread_join_producer ==
    /\ ~aborted
    /\ amain = "join_producer"
    /\ prod_pc = "finished"
    /\ amain' = "join_consumer"
    /\ prod_pc' = "joined"
    /\ UNCHANGED <<glib_checks, glib_assert, aqueue, prod_i, cons_pc,
                   cons_task, popped, processed, freed, criticals, aborted,
                   final_length>>
    /\ UNCHANGED notQueue

\* main: g_thread_join(consumer1), then g_thread_join(consumer2).
aq_g_thread_join_consumer ==
    /\ ~aborted
    /\ amain = "join_consumer"
    /\ \E c \in Consumers :
          /\ cons_pc[c] = "finished"
          /\ \A b \in Consumers : b < c => cons_pc[b] = "joined"
          /\ cons_pc' = [cons_pc EXCEPT ![c] = "joined"]
          /\ amain' = IF c = ConsumerCount THEN "length" ELSE "join_consumer"
    /\ UNCHANGED <<glib_checks, glib_assert, aqueue, prod_pc, prod_i,
                   cons_task, popped, processed, freed, criticals, aborted,
                   final_length>>
    /\ UNCHANGED notQueue

\* main prints g_async_queue_length(queue) and goes on to the try_pop demo.
aq_g_async_queue_length ==
    /\ ~aborted
    /\ amain = "length"
    /\ final_length' = Len(aqueue)
    /\ amain' = "try_pop_demo"
    /\ UNCHANGED <<glib_checks, glib_assert, aqueue, prod_pc, prod_i,
                   cons_pc, cons_task, popped, processed, freed, criticals,
                   aborted>>
    /\ UNCHANGED notQueue

aq_main ==
    \/ aq_g_thread_new_producer
    \/ aq_g_thread_new_consumer
    \/ aq_g_thread_join_producer
    \/ aq_g_thread_join_consumer
    \/ aq_g_async_queue_length

QueueNext ==
    \/ aq_main
    \/ producer_thread
    \/ \E c \in Consumers : consumer_thread(c)

SpecQueue == QueueInit /\ [][QueueNext]_vars

\* Every thread that can run does run.
SpecQueueLive ==
    /\ SpecQueue
    /\ WF_vars(aq_main)
    /\ WF_vars(producer_thread)
    /\ \A c \in Consumers : WF_vars(consumer_thread(c))

\* A task is waiting in the queue.
TaskWaiting == \E i \in 1 .. Len(aqueue) : aqueue[i] # NULL

\* C27: once the producer has pushed its tasks and made its two pushes of
\* NULL, both consumers eventually leave their loop; a consumer that has
\* left its loop never coexists with a task waiting in the queue; and the
\* length main reads after the three joins is 0.
C27_ConsumersTerminate ==
    /\ [](\A c \in Consumers :
             cons_pc[c] \in {"finished", "joined"} => ~TaskWaiting)
    /\ [](final_length \in {-1, 0})
    /\ (prod_pc \in {"finished", "joined"})
          ~> (\A c \in Consumers : cons_pc[c] \in {"finished", "joined"})

\* The consumers that hold task t.
Holders(t) == {c \in Consumers : cons_task[c] = t}

\* The tasks waiting in the queue, oldest first.
WaitingTasks == SelectSeq(aqueue, LAMBDA item : item # NULL)

\* The number of tasks the producer has pushed.
Pushed == IF prod_i = 0 THEN 0 ELSE prod_i - 1

\* C28: the tasks leave the queue in the order 1, 2, ... in which they
\* were pushed, each at most once; the tasks waiting in the queue are the
\* pushed ones not yet popped, in order; a popped task is either held by
\* exactly one consumer or has been freed exactly once, after being
\* processed exactly once; a task not yet popped is held by nobody and not
\* freed; and when the producer is done, no task waits and no consumer holds
\* one, each of the 10 tasks has been processed and freed exactly once.
C28_EachTaskOnce ==
    /\ \A i \in 1 .. Len(popped) : popped[i] = i
    /\ Len(popped) <= Pushed
    /\ WaitingTasks = [i \in 1 .. Pushed - Len(popped) |-> Len(popped) + i]
    /\ \A t \in TaskIds :
          /\ processed[t] <= 1
          /\ freed[t] <= 1
          /\ Cardinality(Holders(t)) + freed[t] =
                IF t <= Len(popped) THEN 1 ELSE 0
          /\ freed[t] = 1 => processed[t] = 1
          /\ processed[t] = 1 => t <= Len(popped)
    /\ (/\ prod_pc \in {"finished", "joined"}
        /\ ~TaskWaiting
        /\ \A c \in Consumers : cons_task[c] = NULL)
          => \A t \in TaskIds : processed[t] = 1 /\ freed[t] = 1

\* C28: all 10 tasks have gone through the two consumers.
C28_Witness ==
    /\ prod_pc \in {"finished", "joined"}
    /\ Len(popped) = TaskCount
    /\ \A c \in Consumers : cons_task[c] = NULL
    /\ \A t \in TaskIds : processed[t] = 1 /\ freed[t] = 1

(***************************************************************************)
(* gtask_basic.c: one fibonacci task and three immediate tasks             *)
(***************************************************************************)

\* The calls of run_immediate_task_async in main.
ImmediateCount == 3

ImmediateTasks == 1 .. ImmediateCount

\* The fibonacci task of compute_fibonacci_async(35, ...).
FibonacciTask == 0

GTasks == {FibonacciTask} \cup ImmediateTasks

\* The completion sources without that of task t.
WithoutSource(sources, t) == SelectSeq(sources, LAMBDA u : u # t)

\* main has created loop on the default context, not running.
TaskStart ==
    /\ gmain = "compute_fibonacci_async"
    /\ gstarted = 0
    /\ gtask = [t \in GTasks |-> "unstarted"]
    /\ gsources = <<>>
    /\ gphase = "none"
    /\ gdispatch = <<>>
    /\ grunning = FALSE
    /\ gcallbacks = [t \in GTasks |-> 0]
    /\ gquitleft = {}

TaskInit ==
    /\ TaskStart
    /\ RingStart(NullPtr)
    /\ LoopIdle
    /\ MutexIdle
    /\ ContextsIdle
    /\ ThreadsIdle
    /\ QueueIdle
    /\ RaceIdle
    /\ TimeoutIdle

\* compute_fibonacci_async: g_task_new with on_fibonacci_complete and
\* g_task_run_in_thread, which hands the task to the thread pool.
compute_fibonacci_async ==
    /\ gmain = "compute_fibonacci_async"
    /\ gtask' = [gtask EXCEPT ![FibonacciTask] = "queued"]
    /\ gmain' = "run_immediate_task_async"
    /\ UNCHANGED <<gstarted, gsources, gphase, gdispatch, grunning,
                   gcallbacks, gquitleft>>
    /\ UNCHANGED notTask

\* run_immediate_task_async, for "Task 1", "Task 2" and "Task 3" in turn.
run_immediate_task_async ==
    /\ gmain = "run_immediate_task_async"
    /\ gstarted < ImmediateCount
    /\ gstarted' = gstarted + 1
    /\ gtask' = [gtask EXCEPT ![gstarted + 1] = "queued"]
    /\ gmain' = IF gstarted + 1 = ImmediateCount THEN "g_main_loop_run"
                ELSE "run_immediate_task_async"
    /\ UNCHANGED <<gsources, gphase, gdispatch, grunning, gcallbacks,
                   gquitleft>>
    /\ UNCHANGED notTask

\* A pool thread runs fibonacci_task_func: the task is not cancellable, so
\* g_task_return_int stores the result, and on return of the function the
\* completion source of the task is attached to the default context.
fibonacci_task_func ==
    /\ gtask[FibonacciTask] = "queued"
    /\ gtask' = [gtask EXCEPT ![FibonacciTask] = "returned"]
    /\ gsources' = Append(gsources, FibonacciTask)
    /\ UNCHANGED <<gmain, gstarted, gphase, gdispatch, grunning, gcallbacks,
                   gquitleft>>
    /\ UNCHANGED notTask

\* A pool thread runs immediate_task_func for task t: g_task_return_pointer,
\* and the completion source of the task is attached.
immediate_task_func(t) ==
    /\ gtask[t] = "queued"
    /\ gtask' = [gtask EXCEPT ![t] = "returned"]
    /\ gsources' = Append(gsources, t)
    /\ UNCHANGED <<gmain, gstarted, gphase, gdispatch, grunning, gcallbacks,
                   gquitleft>>
    /\ UNCHANGED notTask

\* main calls g_main_loop_run(loop).
gt_g_main_loop_run ==
    /\ gmain = "g_main_loop_run"
    /\ gphase = "none"
    /\ grunning' = TRUE
    /\ gphase' = "poll"
    /\ gmain' = "in_loop"
    /\ UNCHANGED <<gstarted, gtask, gsources, gdispatch, gcallbacks,
                   gquitleft>>
    /\ UNCHANGED notTask

\* prepare and poll of one iteration: the only sources of the context are
\* completion sources, so poll returns when one is attached.
gt_poll ==
    /\ gphase = "poll"
    /\ gsources # <<>>
    /\ gphase' = "check"
    /\ UNCHANGED <<gmain, gstarted, gtask, gsources, gdispatch, grunning,
                   gcallbacks, gquitleft>>
    /\ UNCHANGED notTask

\* check: every completion source attached by now is ready and will be
\* dispatched in this iteration, in the order of attachment.
gt_check ==
    /\ gphase = "check"
    /\ gdispatch' = gsources
    /\ gphase' = "dispatch"
    /\ UNCHANGED <<gmain, gstarted, gtask, gsources, grunning, gcallbacks,
                   gquitleft>>
    /\ UNCHANGED notTask

\* The dispatch of the completion source of the fibonacci task calls
\* on_fibonacci_complete, which ends with g_main_loop_quit(loop); the
\* source is destroyed.
on_fibonacci_complete ==
    /\ gphase = "dispatch"
    /\ gdispatch # <<>>
    /\ Head(gdispatch) = FibonacciTask
    /\ gdispatch' = Tail(gdispatch)
    /\ gsources' = WithoutSource(gsources, FibonacciTask)
    /\ gtask' = [gtask EXCEPT ![FibonacciTask] = "completed"]
    /\ gcallbacks' = [gcallbacks EXCEPT ![FibonacciTask] = @ + 1]
    /\ grunning' = FALSE
    /\ gquitleft' = {t \in ImmediateTasks : gcallbacks[t] = 0}
    /\ UNCHANGED <<gmain, gstarted, gphase>>
    /\ UNCHANGED notTask

\* The dispatch of the completion source of immediate task t calls
\* on_immediate_complete; the source is destroyed.
on_immediate_complete(t) ==
    /\ gphase = "dispatch"
    /\ gdispatch # <<>>
    /\ Head(gdispatch) = t
    /\ gdispatch' = Tail(gdispatch)
    /\ gsources' = WithoutSource(gsources, t)
    /\ gtask' = [gtask EXCEPT ![t] = "completed"]
    /\ gcallbacks' = [gcallbacks EXCEPT ![t] = @ + 1]
    /\ UNCHANGED <<gmain, gstarted, gphase, grunning, gquitleft>>
    /\ UNCHANGED notTask

\* The while statement of g_main_loop_run after the dispatches of an
\* iteration: another iteration, or the return to main.
gt_loop_test ==
    /\ gphase = "dispatch"
    /\ gdispatch = <<>>
    /\ gphase' = IF grunning THEN "poll" ELSE "returned"
    /\ gmain' = IF grunning THEN gmain ELSE "g_usleep"
    /\ UNCHANGED <<gstarted, gtask, gsources, gdispatch, grunning,
                   gcallbacks, gquitleft>>
    /\ UNCHANGED notTask

\* main: g_usleep(500000); no iteration of the context runs meanwhile.
gt_g_usleep ==
    /\ gmain = "g_usleep"
    /\ gmain' = "g_main_loop_unref"
    /\ UNCHANGED <<gstarted, gtask, gsources, gphase, gdispatch, grunning,
                   gcallbacks, gquitleft>>
    /\ UNCHANGED notTask

\* main: g_main_loop_unref, the key points, return 0.
gt_return ==
    /\ gmain = "g_main_loop_unref"
    /\ gmain' = "returned"
    /\ UNCHANGED <<gstarted, gtask, gsources, gphase, gdispatch, grunning,
                   gcallbacks, gquitleft>>
    /\ UNCHANGED notTask

TaskNext ==
    \/ compute_fibonacci_async
    \/ run_immediate_task_async
    \/ fibonacci_task_func
    \/ \E t \in ImmediateTasks : immediate_task_func(t)
    \/ gt_g_main_loop_run
    \/ gt_poll
    \/ gt_check
    \/ on_fibonacci_complete
    \/ \E t \in ImmediateTasks : on_immediate_complete(t)
    \/ gt_loop_test
    \/ gt_g_usleep
    \/ gt_return

SpecTask == TaskInit /\ [][TaskNext]_vars

\* C29: no callback is invoked twice; when main has returned, the callback
\* of the fibonacci task and of each of the three immediate tasks has been
\* invoked exactly once; and when on_fibonacci_complete quit the loop no
\* immediate task was still without its callback.
C29_EveryCallbackOnce ==
    /\ \A t \in GTasks : gcallbacks[t] <= 1
    /\ gmain = "returned" => \A t \in GTasks : gcallbacks[t] = 1
    /\ gquitleft = {}

\* The sources of custom_source.c made by simple_source_new.
SimpleSources == {i \in DOMAIN srcs : srcs[i].kind = "simple"}

\* C34: in custom_source the simple source has been dispatched call_count
\* times, which is also the number of calls of simple_callback, and never
\* more than 5 times; it is attached exactly as long as call_count is below
\* 5, so the dispatch that brings call_count to 5 detaches it and none
\* follows; and when the loop has stopped it has been dispatched exactly 5
\* times.
C34_SimpleDispatchedFiveTimes ==
    prog = "custom_source" =>
       \A i \in SimpleSources :
          LET s == srcs[i]
              n == DispatchCount(s.name)
          IN  /\ n = s.call_count
              /\ n = call_num
              /\ n <= 5
              /\ s.attached <=> n < 5
              /\ lphase = "done" => n = 5

\* C34: the loop of custom_source has stopped after the fifth dispatch of
\* the simple source detached it.
C34_Witness ==
    /\ prog = "custom_source"
    /\ lphase = "done"
    /\ \E i \in SimpleSources :
          /\ srcs[i].call_count = 5
          /\ ~srcs[i].attached
          /\ DispatchCount(srcs[i].name) = 5

\* The timer of that name in timeout_example has run at most limit times,
\* and it is attached exactly as long as it has run fewer times, limit being
\* the call at which its callback returns FALSE.
DetachedAtCall(name, limit) ==
    /\ Dispatches(name) <= limit
    /\ srcs[SourceIndex(name)].call_count = Dispatches(name)
    /\ srcs[SourceIndex(name)].attached <=> Dispatches(name) < limit

\* C35: in timeout_example each timer is attached exactly until the call at
\* which its callback returns FALSE (oneshot_timeout the first,
\* repeating_timeout the third, fast_timeout the tenth) and is not dispatched
\* after it; seconds_timeout, whose callback returns TRUE, stays attached;
\* and when the loop has stopped oneshot_timeout has run once,
\* repeating_timeout 3 times, fast_timeout 10 times, and seconds_timeout is
\* still attached for the g_source_remove that follows.
C35_DetachedOnFalseOnly ==
    prog = "timeout_example" =>
       /\ DetachedAtCall("oneshot_timeout", 1)
       /\ DetachedAtCall("repeating_timeout", 3)
       /\ DetachedAtCall("fast_timeout", 10)
       /\ srcs[SourceIndex("seconds_timeout")].attached
       /\ srcs[SourceIndex("seconds_timeout")].call_count
             = Dispatches("seconds_timeout")
       /\ lrunning <=> (lphase # "setup" /\ Dispatches("fast_timeout") < 10)
       /\ lphase = "done" =>
             /\ Dispatches("oneshot_timeout") = 1
             /\ Dispatches("repeating_timeout") = 3
             /\ Dispatches("fast_timeout") = 10
             /\ Dispatches("seconds_timeout") >= 1

\* C35: the loop of timeout_example has stopped with the three counts
\* reached and seconds_timeout attached.
C35_Witness ==
    /\ prog = "timeout_example"
    /\ lphase = "done"
    /\ Dispatches("oneshot_timeout") = 1
    /\ Dispatches("repeating_timeout") = 3
    /\ Dispatches("fast_timeout") = 10
    /\ srcs[SourceIndex("seconds_timeout")].attached
    /\ ~srcs[SourceIndex("repeating_timeout")].attached

(***************************************************************************)
(* mutex_example.c, example 2: the increment without the mutex             *)
(***************************************************************************)

\* main is past unprotected_counter = 0, about to create the first of the
\* threads that run unprotected_increment_thread.
RaceStart ==
    /\ umain = "create"
    /\ ucreated = 0
    /\ ujoined = 0
    /\ unprotected_counter = 0
    /\ upc = [t \in Threads |-> "unborn"]
    /\ ui = [t \in Threads |-> 0]
    /\ utemp = [t \in Threads |-> 0]
    /\ difference = -1

RaceInit ==
    /\ RaceStart
    /\ RingStart(NullPtr)
    /\ LoopIdle
    /\ MutexIdle
    /\ ContextsIdle
    /\ ThreadsIdle
    /\ QueueIdle
    /\ TaskIdle
    /\ TimeoutIdle

\* A for statement whose body runs once more, while i <= iterations.
UnprotectedLoopTestInclusive(i, iterations) ==
    IF i <= iterations THEN "read" ELSE "done"

\* The for statement of unprotected_increment_thread: the body runs while
\* i < iterations.
UnprotectedLoopTest(i, iterations) ==
    IF i < iterations THEN "read" ELSE "done"

\* threads[i] = g_thread_new("unprotected", unprotected_increment_thread,
\* GINT_TO_POINTER(ITERATIONS_PER_THREAD)), the loop of main.
main_g_thread_new_unprotected ==
    /\ umain = "create"
    /\ ucreated' = ucreated + 1
    /\ upc' = [upc EXCEPT ![ucreated + 1] =
                  UnprotectedLoopTest(0, ITERATIONS_PER_THREAD)]
    /\ umain' = IF ucreated + 1 < NUM_THREADS THEN "create" ELSE "join"
    /\ UNCHANGED <<ujoined, unprotected_counter, ui, utemp, difference>>
    /\ UNCHANGED notRace

\* gint temp = unprotected_counter; g_usleep(1) follows, during which any
\* other thread may run.  The load of the aligned gint yields the value
\* some store left there.
read_unprotected_counter(t) ==
    /\ upc[t] = "read"
    /\ utemp' = [utemp EXCEPT ![t] = unprotected_counter]
    /\ upc' = [upc EXCEPT ![t] = "write"]
    /\ UNCHANGED <<umain, ucreated, ujoined, unprotected_counter, ui,
                   difference>>
    /\ UNCHANGED notRace

\* What unprotected_counter = temp + 1 stores.
stored_value(t) == t + 1

\* unprotected_counter = temp + 1, the end of the loop body and i++.
write_unprotected_counter(t) ==
    /\ upc[t] = "write"
    /\ unprotected_counter' = stored_value(utemp[t])
    /\ ui' = [ui EXCEPT ![t] = ui[t] + 1]
    /\ utemp' = [utemp EXCEPT ![t] = 0]
    /\ upc' = [upc EXCEPT ![t] =
                  UnprotectedLoopTest(ui[t] + 1, ITERATIONS_PER_THREAD)]
    /\ UNCHANGED <<umain, ucreated, ujoined, difference>>
    /\ UNCHANGED notRace

unprotected_increment_thread ==
    \E t \in Threads :
        \/ read_unprotected_counter(t)
        \/ write_unprotected_counter(t)

\* g_thread_join(threads[i]), the second loop of main.
main_g_thread_join_unprotected ==
    /\ umain = "join"
    /\ upc[ujoined + 1] = "done"
    /\ ujoined' = ujoined + 1
    /\ umain' = IF ujoined + 1 < NUM_THREADS THEN "join" ELSE "report"
    /\ UNCHANGED <<ucreated, unprotected_counter, upc, ui, utemp, difference>>
    /\ UNCHANGED notRace

\* main prints expected, unprotected_counter and their difference, and goes
\* on to the trylock example.
main_report_unprotected ==
    /\ umain = "report"
    /\ difference' = expected - unprotected_counter
    /\ umain' = "trylock"
    /\ UNCHANGED <<ucreated, ujoined, unprotected_counter, upc, ui, utemp>>
    /\ UNCHANGED notRace

RaceNext ==
    \/ main_g_thread_new_unprotected
    \/ unprotected_increment_thread
    \/ main_g_thread_join_unprotected
    \/ main_report_unprotected

SpecRace == RaceInit /\ [][RaceNext]_vars

\* The loop passes the first n unprotected threads have completed.
RECURSIVE Passes(_)
Passes(n) == IF n = 0 THEN 0 ELSE Passes(n - 1) + ui[n]

\* C31: unprotected_counter never exceeds the number of increments the
\* threads have completed, so it never exceeds
\* NUM_THREADS x ITERATIONS_PER_THREAD, and the difference main prints is
\* never negative; once a thread has completed an increment the counter is
\* at least 1.
C31_NeverMoreThanExpected ==
    umain # "none" =>
        /\ unprotected_counter <= Passes(NUM_THREADS)
        /\ Passes(NUM_THREADS) <= expected
        /\ \A t \in Threads : upc[t] = "write" => utemp[t] <= Passes(NUM_THREADS)
        /\ Passes(NUM_THREADS) > 0 => unprotected_counter >= 1
        /\ umain = "trylock" =>
              /\ difference = expected - unprotected_counter
              /\ difference >= 0

\* C31: main has joined all threads and prints a difference above 0:
\* increments were lost.
C31_Witness ==
    /\ umain = "trylock"
    /\ ujoined = NUM_THREADS
    /\ \A t \in Threads : ui[t] = ITERATIONS_PER_THREAD
    /\ unprotected_counter < expected
    /\ difference > 0

(***************************************************************************)
(* async_timeout.c: a task in a pool thread against a timeout              *)
(***************************************************************************)

\* Ticks by which threads are late in one run of the program, in all: up to
\* the 500 ms that lie between the work and the timeout of the first run.
MaxStall == 5

\* slow_task_func: check_interval, in ms; main: g_usleep(100000), in ms.
check_interval == 100

PauseMs == 100

\* The two calls of run_with_timeout in main and their arguments.
Runs == {1, 2}

work_time_ms(r) == IF r = 1 THEN 500 ELSE 2000

timeout_ms(r) == IF r = 1 THEN 1000 ELSE 500

oTask == <<opc, elapsed, owake, oresult>>

oLoop == <<ophase, opending, orunning>>

oHistory == <<fired, removals, reported, cancel_at, seen_at, work_done>>

\* main has created main_loop, not running.
TimeoutStart ==
    /\ omain = "run_with_timeout"
    /\ orun = 0
    /\ oclock = 0
    /\ odelay = 0
    /\ mwake = 0
    /\ cancellable = 0
    /\ cancelled = [r \in Runs |-> FALSE]
    /\ timeout_source_id = 0
    /\ next_source_id = 1
    /\ osources = <<>>
    /\ ophase = "none"
    /\ opending = <<>>
    /\ orunning = FALSE
    /\ opc = "none"
    /\ elapsed = 0
    /\ owake = 0
    /\ oresult = "none"
    /\ fired = [r \in Runs |-> 0]
    /\ removals = <<>>
    /\ reported = [r \in Runs |-> "none"]
    /\ cancel_at = [r \in Runs |-> -1]
    /\ seen_at = [r \in Runs |-> -1]
    /\ work_done = [r \in Runs |-> "no"]

TimeoutInit ==
    /\ TimeoutStart
    /\ RingStart(NullPtr)
    /\ LoopIdle
    /\ MutexIdle
    /\ ContextsIdle
    /\ ThreadsIdle
    /\ QueueIdle
    /\ TaskIdle
    /\ RaceIdle

\* The source of that id is attached to the default context.
IsAttached(sources, id) == \E i \in 1 .. Len(sources) : sources[i].id = id

SourceOfId(id) ==
    osources[CHOOSE i \in 1 .. Len(osources) : osources[i].id = id]

\* The sources without the one of that id: g_source_destroy.
WithoutId(sources, id) == SelectSeq(sources, LAMBDA x : x.id # id)

\* A timeout source is ready once its time has come, the completion source
\* of a task as soon as it is attached.
SourceReady(x) == x.kind = "task" \/ x.expire <= oclock

\* run_with_timeout(work_time_ms, timeout_ms, label): a new cancellable (the
\* r-th object), g_timeout_add, the task handed to the thread pool, and
\* g_main_loop_run.
run_with_timeout ==
    /\ omain = "run_with_timeout"
    /\ LET r == orun + 1
       IN  /\ orun' = r
           /\ cancellable' = r
           /\ cancelled' = [cancelled EXCEPT ![r] = FALSE]
           /\ osources' = Append(osources,
                  [id |-> next_source_id, kind |-> "timeout",
                   expire |-> oclock + Ticks(timeout_ms(r)), run |-> r])
    /\ timeout_source_id' = next_source_id
    /\ next_source_id' = next_source_id + 1
    /\ opc' = "test"
    /\ elapsed' = 0
    /\ oresult' = "none"
    /\ orunning' = TRUE
    /\ ophase' = "poll"
    /\ omain' = "g_main_loop_run"
    /\ UNCHANGED <<oclock, odelay, mwake, opending, owake>>
    /\ UNCHANGED oHistory
    /\ UNCHANGED notTimeout

\* A task that never sees its cancellable cancelled.
g_cancellable_never_cancelled(flag) == FALSE

\* g_cancellable_is_cancelled(task_cancellable)
g_cancellable_is_cancelled(flag) == flag

\* slow_task_func, the while test and the check inside: the work is done
\* (g_task_return_boolean), the cancellation is seen
\* (g_task_return_new_error), or g_usleep starts.  Returning attaches the
\* completion source of the task to the default context.
slow_task_test ==
    /\ opc = "test"
    /\ IF elapsed < work_time_ms(orun)
       THEN IF g_cancellable_is_cancelled(cancelled[orun])
            THEN /\ oresult' = "G_IO_ERROR_CANCELLED"
                 /\ opc' = "returned"
                 /\ seen_at' = [seen_at EXCEPT ![orun] = oclock]
                 /\ osources' = Append(osources,
                        [id |-> next_source_id, kind |-> "task",
                         expire |-> oclock, run |-> orun])
                 /\ next_source_id' = next_source_id + 1
                 /\ UNCHANGED <<owake, work_done>>
            ELSE /\ opc' = "sleep"
                 /\ owake' = oclock + Ticks(check_interval)
                 /\ UNCHANGED <<oresult, seen_at, osources, next_source_id,
                                work_done>>
       ELSE /\ oresult' = "TRUE"
            /\ opc' = "returned"
            /\ work_done' = [work_done EXCEPT ![orun] =
                  IF fired[orun] = 0 THEN "before_timeout"
                  ELSE "after_timeout"]
            /\ osources' = Append(osources,
                   [id |-> next_source_id, kind |-> "task",
                    expire |-> oclock, run |-> orun])
            /\ next_source_id' = next_source_id + 1
            /\ UNCHANGED <<owake, seen_at>>
    /\ UNCHANGED <<omain, orun, oclock, odelay, mwake, cancellable, cancelled,
                   timeout_source_id, elapsed, fired, removals, reported,
                   cancel_at>>
    /\ UNCHANGED oLoop
    /\ UNCHANGED notTimeout

\* slow_task_func: g_usleep(check_interval * 1000) ends, and
\* elapsed += check_interval.
slow_task_wake ==
    /\ opc = "sleep"
    /\ owake <= oclock
    /\ elapsed' = elapsed + check_interval
    /\ opc' = "test"
    /\ UNCHANGED <<omain, orun, oclock, odelay, mwake, cancellable, cancelled,
                   timeout_source_id, next_source_id, osources, owake,
                   oresult>>
    /\ UNCHANGED oLoop
    /\ UNCHANGED oHistory
    /\ UNCHANGED notTimeout

slow_task_func == slow_task_test \/ slow_task_wake

\* prepare and poll of an iteration of main_loop: poll returns when a source
\* is ready.
at_poll ==
    /\ ophase = "poll"
    /\ \E i \in 1 .. Len(osources) : SourceReady(osources[i])
    /\ ophase' = "check"
    /\ UNCHANGED <<omain, orun, oclock, odelay, mwake, cancellable, cancelled,
                   timeout_source_id, next_source_id, osources, opending,
                   orunning>>
    /\ UNCHANGED oTask
    /\ UNCHANGED oHistory
    /\ UNCHANGED notTimeout

\* check: the ready sources, all of default priority, will be dispatched in
\* the order of attachment.
at_check ==
    /\ ophase = "check"
    /\ LET readies == SelectSeq(osources, SourceReady)
       IN  opending' = [i \in 1 .. Len(readies) |-> readies[i].id]
    /\ ophase' = "dispatch"
    /\ UNCHANGED <<omain, orun, oclock, odelay, mwake, cancellable, cancelled,
                   timeout_source_id, next_source_id, osources, orunning>>
    /\ UNCHANGED oTask
    /\ UNCHANGED oHistory
    /\ UNCHANGED notTimeout

\* An on_timeout that leaves timeout_source_id as it is.
on_timeout_keeps_id(id) == id

\* on_timeout: timeout_source_id = 0.
on_timeout_source_id(id) == 0

\* The dispatch of a timeout source calls on_timeout:
\* g_cancellable_cancel(cancellable), timeout_source_id = 0 and
\* G_SOURCE_REMOVE, on which the source is destroyed.
on_timeout ==
    /\ ophase = "dispatch"
    /\ opending # <<>>
    /\ SourceOfId(Head(opending)).kind = "timeout"
    /\ LET x == SourceOfId(Head(opending))
       IN  /\ cancelled' = [cancelled EXCEPT ![cancellable] = TRUE]
           /\ cancel_at' = [cancel_at EXCEPT ![cancellable] =
                               IF @ = -1 THEN oclock ELSE @]
           /\ timeout_source_id' = on_timeout_source_id(timeout_source_id)
           /\ osources' = WithoutId(osources, x.id)
           /\ fired' = [fired EXCEPT ![x.run] = @ + 1]
           /\ removals' = Append(removals,
                  [run |-> orun, by |-> "on_timeout", id |-> x.id,
                   found |-> TRUE, of |-> x.run])
    /\ opending' = Tail(opending)
    /\ UNCHANGED <<omain, orun, oclock, odelay, mwake, cancellable,
                   next_source_id, ophase, orunning, reported, seen_at,
                   work_done>>
    /\ UNCHANGED oTask
    /\ UNCHANGED notTimeout

\* g_task_propagate_boolean: a task made with a cancellable reports
\* G_IO_ERROR_CANCELLED when that cancellable is cancelled by now, else what
\* the task function returned; on_task_complete prints accordingly.
g_task_propagate_boolean(result, flag) ==
    IF flag \/ result = "G_IO_ERROR_CANCELLED" THEN "timed out"
    ELSE "success"

\* The dispatch of the completion source calls on_task_complete: the
\* timeout source is removed when timeout_source_id is not 0, the outcome is
\* printed, and g_main_loop_quit.  A source destroyed here is not dispatched
\* any more in this iteration.
on_task_complete ==
    /\ ophase = "dispatch"
    /\ opending # <<>>
    /\ SourceOfId(Head(opending)).kind = "task"
    /\ LET x == SourceOfId(Head(opending))
           left == IF timeout_source_id # 0
                   THEN WithoutId(WithoutId(osources, x.id),
                                  timeout_source_id)
                   ELSE WithoutId(osources, x.id)
       IN  /\ osources' = left
           /\ removals' =
                 IF timeout_source_id # 0
                 THEN Append(removals,
                         [run |-> orun, by |-> "on_task_complete",
                          id |-> timeout_source_id,
                          found |-> IsAttached(osources, timeout_source_id),
                          of |-> IF IsAttached(osources, timeout_source_id)
                                 THEN SourceOfId(timeout_source_id).run
                                 ELSE 0])
                 ELSE removals
           /\ reported' = [reported EXCEPT ![x.run] =
                 g_task_propagate_boolean(oresult, cancelled[x.run])]
           /\ opending' = SelectSeq(Tail(opending),
                                    LAMBDA id : IsAttached(left, id))
    /\ timeout_source_id' = 0
    /\ orunning' = FALSE
    /\ opc' = "none"
    /\ UNCHANGED <<omain, orun, oclock, odelay, mwake, cancellable, cancelled,
                   next_source_id, ophase, elapsed, owake, oresult, fired,
                   cancel_at, seen_at, work_done>>
    /\ UNCHANGED notTimeout

\* The while statement of g_main_loop_run after the dispatches: the next
\* iteration, or the return to run_with_timeout and main, which sleeps
\* 100 ms after the first run and cleans up after the second.
at_loop_test ==
    /\ ophase = "dispatch"
    /\ opending = <<>>
    /\ IF orunning
       THEN /\ ophase' = "poll"
            /\ UNCHANGED <<omain, mwake>>
       ELSE /\ ophase' = "none"
            /\ omain' = IF orun = 1 THEN "g_usleep" ELSE "cleanup"
            /\ mwake' = oclock + Ticks(PauseMs)
    /\ UNCHANGED <<orun, oclock, odelay, cancellable, cancelled,
                   timeout_source_id, next_source_id, osources, opending,
                   orunning>>
    /\ UNCHANGED oTask
    /\ UNCHANGED oHistory
    /\ UNCHANGED notTimeout

\* main: g_usleep(100000) ends.
at_g_usleep ==
    /\ omain = "g_usleep"
    /\ mwake <= oclock
    /\ omain' = "run_with_timeout"
    /\ UNCHANGED <<orun, oclock, odelay, mwake, cancellable, cancelled,
                   timeout_source_id, next_source_id, osources>>
    /\ UNCHANGED oLoop
    /\ UNCHANGED oTask
    /\ UNCHANGED oHistory
    /\ UNCHANGED notTimeout

\* main: the cleanup and return 0.
at_cleanup ==
    /\ omain = "cleanup"
    /\ omain' = "returned"
    /\ UNCHANGED <<orun, oclock, odelay, mwake, cancellable, cancelled,
                   timeout_source_id, next_source_id, osources>>
    /\ UNCHANGED oLoop
    /\ UNCHANGED oTask
    /\ UNCHANGED oHistory
    /\ UNCHANGED notTimeout

\* main, or the pool thread, has something to do now.
MainDue ==
    \/ omain \in {"run_with_timeout", "cleanup"}
    \/ omain = "g_usleep" /\ mwake <= oclock
    \/ ophase \in {"check", "dispatch"}
    \/ ophase = "poll" /\ \E i \in 1 .. Len(osources) : SourceReady(osources[i])

TaskDue == opc = "test" \/ (opc = "sleep" /\ owake <= oclock)

\* Time passes: one tick.  A thread that has something to do is late by
\* it, which happens MaxStall times at most.
at_tick ==
    /\ omain \notin {"none", "returned"}
    /\ IF MainDue \/ TaskDue
       THEN odelay < MaxStall /\ odelay' = odelay + 1
       ELSE odelay' = odelay
    /\ oclock' = oclock + 1
    /\ UNCHANGED <<omain, orun, mwake, cancellable, cancelled,
                   timeout_source_id, next_source_id, osources>>
    /\ UNCHANGED oLoop
    /\ UNCHANGED oTask
    /\ UNCHANGED oHistory
    /\ UNCHANGED notTimeout

TimeoutNext ==
    \/ run_with_timeout
    \/ slow_task_func
    \/ at_poll
    \/ at_check
    \/ on_timeout
    \/ on_task_complete
    \/ at_loop_test
    \/ at_g_usleep
    \/ at_cleanup
    \/ at_tick

SpecTimeout == TimeoutInit /\ [][TimeoutNext]_vars

\* The ticks between the end of the work and the timeout in the first run.
Margin == Ticks(timeout_ms(1) - work_time_ms(1))

\* A task sees a cancellation only after its timeout fired, and within one
\* check interval of the g_cancellable_cancel, plus the ticks threads were
\* late; while it has not seen it yet that time has not passed.
SeenWithinInterval ==
    \A r \in Runs :
       /\ seen_at[r] # -1 =>
             /\ cancel_at[r] # -1
             /\ cancel_at[r] <= seen_at[r]
             /\ seen_at[r] <= cancel_at[r] + Ticks(check_interval) + odelay
       /\ (/\ r = orun
           /\ cancel_at[r] # -1
           /\ seen_at[r] = -1
           /\ opc \in {"test", "sleep"})
             => oclock <= cancel_at[r] + Ticks(check_interval) + odelay

RemovalsOf(r) == SelectSeq(removals, LAMBDA x : x.run = r)

\* C33: every removal finds its source attached and removes the timeout
\* source of the run it happens in; a run has at most one removal and, once
\* on_task_complete has run, exactly one; on_task_complete removes the
\* source only when on_timeout has not run; timeout_source_id, when not 0,
\* is the id of an attached timeout source of the current run; a
\* cancellable is cancelled only by the timeout of its own run; and between
\* the runs no source is attached and timeout_source_id is 0.
C33_RemovedExactlyOnce ==
    omain # "none" =>
       /\ \A i \in 1 .. Len(removals) :
             /\ removals[i].found
             /\ removals[i].of = removals[i].run
             /\ removals[i].by = "on_task_complete" =>
                   fired[removals[i].run] = 0
       /\ \A r \in Runs :
             /\ Len(RemovalsOf(r)) <= 1
             /\ fired[r] <= 1
             /\ reported[r] # "none" => Len(RemovalsOf(r)) = 1
             /\ cancelled[r] <=> fired[r] = 1
             /\ fired[r] = 1 => r <= orun
       /\ timeout_source_id # 0 =>
             /\ IsAttached(osources, timeout_source_id)
             /\ SourceOfId(timeout_source_id).kind = "timeout"
             /\ SourceOfId(timeout_source_id).run = orun
       /\ omain \in {"run_with_timeout", "g_usleep", "cleanup", "returned"}
             => (osources = <<>> /\ timeout_source_id = 0)

\* C33: main has returned; the timeout source of the first run was removed
\* by on_task_complete, that of the second by firing.
C33_Witness ==
    /\ omain = "returned"
    /\ Len(removals) = 2
    /\ removals[1].by = "on_task_complete" /\ removals[1].run = 1
    /\ removals[2].by = "on_timeout" /\ removals[2].run = 2
    /\ fired = <<0, 1>>


====
